---- MODULE Spec2Model ----
(***************************************************************************)
(* Model of the Rust proxy of GoooIce/tensorzero:                          *)
(*   - the Stream Transducer (sse_processor.rs): the SSE line parser, the  *)
(*     accumulator and the stream::unfold closure that yields chunks;      *)
(*   - the Signing Bridge (wasm_signer.rs): WasmSigner::sign driving the   *)
(*     module's allocator, signing export and deallocator under a mutex,   *)
(*     and the lazily initialized instance behind get_instance;            *)
(*   - the provider (rust_proxy.rs): model discovery, validation, the two  *)
(*     caches shared by the tasks, check_model_availability, and infer,    *)
(*     which signs each request through the Signing Bridge;                *)
(*   - the embeddings endpoint (endpoints/embeddings.rs).                  *)
(*                                                                         *)
(* Text is modelled character by character: a string is a tuple of         *)
(* one-character strings.  A byte is an ASCII character or one of the      *)
(* tokens "xC2", "xC3", "x85", "xA0", "xA9" (lead and continuation bytes  *)
(* of two-byte characters), so that UTF-8 decoding                         *)
(* is a real conversion.  Option<T> is a tuple of length 0 (None) or 1     *)
(* (Some).  The `created` field of a chunk (wall-clock seconds) is read by *)
(* no operation and is left out of the chunk records.                      *)
(***************************************************************************)
EXTENDS Integers, Sequences, FiniteSets, TLC

(***************************************************************************)
(* Bounds                                                                  *)
(***************************************************************************)
\* number of items the upstream byte source delivers before it ends
MaxReads == 3
\* number of sign calls, and of get_instance calls, started
MaxCalls == 2
\* number of threads calling the bridge, and of tasks sharing a provider
NumCallers == 2
\* number of blocks the module's heap can hold
HeapSlots == 7
\* number of strings in the input array of an embeddings request
MaxInputs == 2
\* Calls of process_single_dev_event made on one accumulator
MaxEvents == 2
\* Operations the tasks start on one provider
MaxOps == 3
\* Length of a discovered model list, where the list itself is the input
MaxModels == 2

(***************************************************************************)
(* Strings                                                                 *)
(***************************************************************************)
None == << >>
Some(x) == << x >>

S_event == <<"e","v","e","n","t">>
S_data == <<"d","a","t","a">>
S_id == <<"i","d">>
S_retry == <<"r","e","t","r","y">>
S_message == <<"m","e","s","s","a","g","e">>
S_content == <<"c","o","n","t","e","n","t">>
S_c == <<"c">>
S_action == <<"a","c","t","i","o","n">>
S_sources == <<"s","o","u","r","c","e","s">>
S_repoSources == <<"r","e","p","o","S","o","u","r","c","e","s">>
S_rlq == <<"r","l","q">>
S_q == <<"q">>
S_r == <<"r">>
S_threadId == <<"t","h","r","e","a","d","I","d">>
S_queryMessageId == <<"q","u","e","r","y","M","e","s","s","a","g","e","I","d">>
S_answerMessageId == <<"a","n","s","w","e","r","M","e","s","s","a","g","e","I","d">>
S_threadTitle == <<"t","h","r","e","a","d","T","i","t","l","e">>
S_error == <<"e","r","r","o","r">>
S_finish == <<"f","i","n","i","s","h">>
S_stop == <<"s","t","o","p">>
S_assistant == <<"a","s","s","i","s","t","a","n","t">>
S_object == <<"c","h","a","t",".","c","o","m","p","l","e","t","i","o","n",".","c","h","u","n","k">>
S_unknown_model == <<"u","n","k","n","o","w","n","-","d","e","v","-","m","o","d","e","l">>
S_stream_error_tag == <<"[","S","T","R","E","A","M","_","E","R","R","O","R","]",":"," ">>
S_utf8_error == <<"U","T","F","-","8"," ","d","e","c","o","d","e"," ","e","r","r","o","r",":"," ">>
S_read_error == <<"S","t","r","e","a","m"," ","e","r","r","o","r",":"," ">>

\* str::find(c): index of the first occurrence of c, 0 when absent
RECURSIVE FindFrom(_, _, _)
FindFrom(s, c, i) ==
    IF i > Len(s) THEN 0
    ELSE IF s[i] = c THEN i
    ELSE FindFrom(s, c, i + 1)

Find(s, c) == FindFrom(s, c, 1)

\* str::trim_end_matches(c): removes every trailing occurrence of c
RECURSIVE TrimEndMatches(_, _)
TrimEndMatches(s, c) ==
    IF s # << >> /\ s[Len(s)] = c
    THEN TrimEndMatches(SubSeq(s, 1, Len(s) - 1), c)
    ELSE s

\* The characters above U+007F with the Unicode property White_Space (a
\* character the model has no letter for is the token "U+XXXX")
WhiteSpaceTable ==
    {"U+0085", "U+00A0", "U+1680", "U+2000", "U+2001", "U+2002", "U+2003",
     "U+2004", "U+2005", "U+2006", "U+2007", "U+2008", "U+2009", "U+200A",
     "U+2028", "U+2029", "U+202F", "U+205F", "U+3000"}

\* char::is_whitespace: ' ' and U+0009 ..= U+000D, and above U+007F the
\* characters of the White_Space table
IsWhitespace(c) ==
    \/ c \in {" ", "\t", "\n", "U+000B", "\f", "\r"}
    \/ c \in WhiteSpaceTable

RECURSIVE TrimStart(_)
TrimStart(s) ==
    IF s # << >> /\ IsWhitespace(s[1]) THEN TrimStart(Tail(s)) ELSE s

RECURSIVE TrimEnd(_)
TrimEnd(s) ==
    IF s # << >> /\ IsWhitespace(s[Len(s)])
    THEN TrimEnd(SubSeq(s, 1, Len(s) - 1))
    ELSE s

\* str::trim
Trim(s) == TrimEnd(TrimStart(s))

\* [String]::join("\n")
RECURSIVE JoinLines(_)
JoinLines(ls) ==
    IF ls = << >> THEN << >>
    ELSE IF Len(ls) = 1 THEN ls[1]
    ELSE ls[1] \o <<"\n">> \o JoinLines(Tail(ls))

\* str::split('\n'): always at least one piece
RECURSIVE SplitNewline(_)
SplitNewline(s) ==
    LET p == Find(s, "\n")
    IN  IF p = 0 THEN << s >>
        ELSE << SubSeq(s, 1, p - 1) >> \o SplitNewline(SubSeq(s, p + 1, Len(s)))

\* str::lines: split_inclusive('\n'), then strip one "\n" and, only when a
\* "\n" was stripped, one "\r"; an empty string has no lines
RECURSIVE StrLines(_)
StrLines(s) ==
    IF s = << >> THEN << >>
    ELSE LET p == Find(s, "\n")
         IN  IF p = 0 THEN << s >>
             ELSE LET l == SubSeq(s, 1, p - 1)
                      l2 == IF l # << >> /\ l[Len(l)] = "\r"
                            THEN SubSeq(l, 1, Len(l) - 1) ELSE l
                  IN  << l2 >> \o StrLines(SubSeq(s, p + 1, Len(s)))

(***************************************************************************)
(* UTF-8 decoding of a received byte chunk (str::from_utf8)                *)
(***************************************************************************)
\* The bytes above 0x7F of the model's alphabet: the lead bytes 0xC2 and
\* 0xC3 of a two-byte character and the continuation bytes 0x85, 0xA0, 0xA9
IsLeadByte(b) == b \in {"xC2", "xC3"}
IsContByte(b) == b \in {"x85", "xA0", "xA9"}

\* The character of a two-byte sequence: code point
\* (lead - 0xC0) * 64 + (cont - 0x80)
Utf8Char(lead, cont) ==
    IF lead = "xC2"
    THEN (IF cont = "x85" THEN "U+0085" ELSE IF cont = "xA0" THEN "U+00A0" ELSE "U+00A9")
    ELSE (IF cont = "x85" THEN "U+00C5" ELSE IF cont = "xA0" THEN "U+00E0" ELSE "U+00E9")

\* Utf8Error: valid_up_to is the index of the first byte that is not part
\* of valid UTF-8; error_len is None when the input ends inside a
\* character, Some(n) when n bytes are to be skipped
Utf8Error(valid_up_to, error_len) ==
    [ok |-> FALSE, text |-> << >>, valid_up_to |-> valid_up_to,
     error_len |-> error_len]

\* Ok(text), or Err(Utf8Error) when the bytes are not valid UTF-8 on their
\* own
RECURSIVE from_utf8(_)
from_utf8(bytes) ==
    IF bytes = << >>
    THEN [ok |-> TRUE, text |-> << >>, valid_up_to |-> 0, error_len |-> << >>]
    ELSE IF IsLeadByte(bytes[1])
    THEN IF Len(bytes) = 1
         THEN Utf8Error(0, << >>)
         ELSE IF IsContByte(bytes[2])
         THEN LET r == from_utf8(SubSeq(bytes, 3, Len(bytes)))
              IN  [r EXCEPT !.text = IF r.ok
                                       THEN << Utf8Char(bytes[1], bytes[2]) >> \o @
                                       ELSE @,
                            !.valid_up_to = @ + 2]
         ELSE Utf8Error(0, << 1 >>)
    ELSE IF IsContByte(bytes[1])
    THEN Utf8Error(0, << 1 >>)
    ELSE LET r == from_utf8(Tail(bytes))
         IN  [r EXCEPT !.text = IF r.ok THEN << bytes[1] >> \o @ ELSE @,
                       !.valid_up_to = @ + 1]

\* The decimal digits of an unsigned number (Display for usize and u8)
RECURSIVE usize_to_string(_)
usize_to_string(n) ==
    LET digit == << <<"0","1","2","3","4","5","6","7","8","9">>[(n % 10) + 1] >>
    IN  IF n < 10 THEN digit ELSE usize_to_string(n \div 10) \o digit

S_incomplete_from ==
    <<"i","n","c","o","m","p","l","e","t","e"," ","u","t","f","-","8"," ",
      "b","y","t","e"," ","s","e","q","u","e","n","c","e"," ","f","r","o",
      "m"," ","i","n","d","e","x"," ">>
S_invalid_sequence_of ==
    <<"i","n","v","a","l","i","d"," ","u","t","f","-","8"," ","s","e","q",
      "u","e","n","c","e"," ","o","f"," ">>
S_bytes_from_index ==
    <<" ","b","y","t","e","s"," ","f","r","o","m"," ","i","n","d","e","x",
      " ">>

\* Display for Utf8Error
Utf8Error_fmt(e) ==
    IF e.error_len = << >>
    THEN S_incomplete_from \o usize_to_string(e.valid_up_to)
    ELSE S_invalid_sequence_of \o usize_to_string(e.error_len[1])
         \o S_bytes_from_index \o usize_to_string(e.valid_up_to)

(***************************************************************************)
(* SSE line parsing                                                        *)
(***************************************************************************)
parse_sse_line(line) ==
    IF line = << >> THEN [kind |-> "Empty", value |-> << >>]
    ELSE IF line[1] = ":" THEN [kind |-> "Comment", value |-> << >>]
    ELSE LET p == Find(line, ":")
             field == IF p = 0 THEN line ELSE SubSeq(line, 1, p - 1)
             raw == IF p = 0 THEN << >> ELSE SubSeq(line, p + 1, Len(line))
             value == IF raw # << >> /\ raw[1] = " " THEN Tail(raw) ELSE raw
         IN  IF field = S_event THEN [kind |-> "Event", value |-> value]
             ELSE IF field = S_data THEN [kind |-> "Data", value |-> value]
             ELSE IF field = S_id THEN [kind |-> "Id", value |-> value]
             ELSE IF field = S_retry THEN [kind |-> "Retry", value |-> value]
             ELSE [kind |-> "Comment", value |-> << >>]

(***************************************************************************)
(* Accumulator and chunks                                                  *)
(***************************************************************************)
SseAccumulator_default ==
    [ text |-> << >>,
      actions |-> << >>,
      sources |-> << >>,
      github_sources |-> << >>,
      related_questions |-> << >>,
      related_questions_raw |-> << >>,
      thread_id |-> None,
      query_message_id |-> None,
      answer_message_id |-> None,
      thread_title |-> None,
      reasoning |-> None,
      is_finished |-> FALSE,
      error |-> None ]

\* A variant that keeps the empty pieces of the split
update_related_questions_KeepsEmpty(acc) ==
    LET pieces == SplitNewline(acc.related_questions_raw)
        trimmed == [i \in 1..Len(pieces) |-> Trim(pieces[i])]
    IN  [acc EXCEPT !.related_questions = trimmed]

update_related_questions(acc) ==
    LET pieces == SplitNewline(acc.related_questions_raw)
        trimmed == [i \in 1..Len(pieces) |-> Trim(pieces[i])]
    IN  [acc EXCEPT !.related_questions = SelectSeq(trimmed, LAMBDA q : q # << >>)]

\* A variant whose content chunk closes the choice
create_content_chunk_Stops(id, model, content) ==
    [ id |-> id, object |-> S_object, model |-> model,
      choices |-> << [ index |-> 0,
                       delta |-> [role |-> Some(S_assistant), content |-> Some(content)],
                       finish_reason |-> Some(S_stop) ] >> ]

create_content_chunk(id, model, content) ==
    [ id |-> id, object |-> S_object, model |-> model,
      choices |-> << [ index |-> 0,
                       delta |-> [role |-> Some(S_assistant), content |-> Some(content)],
                       finish_reason |-> None ] >> ]

\* A variant that stamps the terminal chunk with the default model name
create_final_chunk_DefaultModel(id, model, finish_reason) ==
    [ id |-> id, object |-> S_object, model |-> S_unknown_model,
      choices |-> << [ index |-> 0,
                       delta |-> [role |-> None, content |-> None],
                       finish_reason |-> Some(finish_reason) ] >> ]

create_final_chunk(id, model, finish_reason) ==
    [ id |-> id, object |-> S_object, model |-> model,
      choices |-> << [ index |-> 0,
                       delta |-> [role |-> None, content |-> None],
                       finish_reason |-> Some(finish_reason) ] >> ]

\* A variant whose error chunk carries no finish_reason
create_error_chunk_NoFinish(id, model, error_message) ==
    [ id |-> id, object |-> S_object, model |-> model,
      choices |-> << [ index |-> 0,
                       delta |-> [role |-> Some(S_assistant),
                                  content |-> Some(S_stream_error_tag \o error_message)],
                       finish_reason |-> None ] >> ]

create_error_chunk(id, model, error_message) ==
    [ id |-> id, object |-> S_object, model |-> model,
      choices |-> << [ index |-> 0,
                       delta |-> [role |-> Some(S_assistant),
                                  content |-> Some(S_stream_error_tag \o error_message)],
                       finish_reason |-> Some(S_stop) ] >> ]

(***************************************************************************)
(* JSON payloads of action / sources / repoSources events.                 *)
(* serde_json::from_str is modelled by a parser of JSON text (RFC 8259 as  *)
(* serde_json reads it) and the derived Deserialize of DevAction,          *)
(* DevSource and DevGithubSource.  A parse result is [ok, value, next]:    *)
(* `next` is the index of the first character not consumed.  A number      *)
(* keeps the text it was written with.                                     *)
(***************************************************************************)
J_action1 == <<"{","\"","t","y","p","e","\"",":","1","}">>
J_sources1 == <<"[","{","\"","u","r","l","\"",":","\"","u","\"","}","]">>
J_sources0 == <<"[","]">>
J_repo1 == <<"[","{","\"","r","e","p","o","\"",":","\"","o","\"","}","]">>

\* The payloads of test_process_event_action, test_process_event_sources
\* and test_process_event_repo_sources
J_action_extra ==
    <<"{","\"","t","y","p","e","\"",":"," ","1",","," ","\"","s","o","m",
      "e","_","d","a","t","a","\"",":"," ","\"","v","a","l","u","e","\"",
      "}">>

J_sources_titled ==
    <<"[","{","\"","t","i","t","l","e","\"",":"," ","\"","D","o","c"," ",
      "1","\"",","," ","\"","u","r","l","\"",":"," ","\"","h","t","t","p",
      ":","/","/","a",".","c","o","m","\"","}","]">>

J_repo_path ==
    <<"[","{","\"","r","e","p","o","\"",":"," ","\"","o","r","g","/","r",
      "e","p","o","\"",","," ","\"","f","i","l","e","P","a","t","h","\"",
      ":"," ","\"","s","r","c","/","m","a","i","n",".","r","s","\"","}",
      "]">>

\* The payload of test_process_event_action_invalid_json: {"type: 1}
J_action_unclosed == <<"{","\"","t","y","p","e",":"," ","1","}">>

\* [{"n":1e999}]: a number no f64 holds
J_sources_range == <<"[","{","\"","n","\"",":","1","e","9","9","9","}","]">>
\* [{"repo":"<TAB>"}]: a raw control character inside a string
J_repo_control == <<"[","{","\"","r","e","p","o","\"",":","\"","\t","\"","}","]">>
\* {"type":1,"a":"<U+0001>"}
J_action_control == <<"{","\"","t","y","p","e","\"",":","1",",","\"","a","\"",":","\"","U+0001","\"","}">>
\* [{"title":"<U+00A0>"}]: a space that is no control character
J_sources_nbsp == <<"[","{","\"","t","i","t","l","e","\"",":","\"","U+00A0","\"","}","]">>

S_type == <<"t","y","p","e">>
S_title == <<"t","i","t","l","e">>
S_url == <<"u","r","l">>
S_repo == <<"r","e","p","o">>
S_filePath == <<"f","i","l","e","P","a","t","h">>
S_null == <<"n","u","l","l">>
S_true == <<"t","r","u","e">>
S_false == <<"f","a","l","s","e">>
S_u32_max == <<"4","2","9","4","9","6","7","2","9","5">>
S_i32_max == <<"2","1","4","7","4","8","3","6","4","7">>

\* The characters U+0020 .. U+007E in code order (the grave accent, which
\* a TLA+ string cannot hold before its closing quote, as a token)
AsciiPrintable ==
    <<" ","!","\"","#","$","%","&","'","(",")","*","+",",","-",".","/","0",
      "1","2","3","4","5","6","7","8","9",":",";","<","=",">","?","@","A",
      "B","C","D","E","F","G","H","I","J","K","L","M","N","O","P","Q","R",
      "S","T","U","V","W","X","Y","Z","[","\\","]","^","_","U+0060","a","b","c",
      "d","e","f","g","h","i","j","k","l","m","n","o","p","q","r","s","t",
      "u","v","w","x","y","z","{","|","}","~">>

DecDigits == <<"0","1","2","3","4","5","6","7","8","9">>
HexDigitsUpper == DecDigits \o <<"A","B","C","D","E","F">>
HexDigitsLower == DecDigits \o <<"a","b","c","d","e","f">>

IsDigit(c) == \E d \in 1..10 : DecDigits[d] = c
DigitValue(c) == (CHOOSE d \in 1..10 : DecDigits[d] = c) - 1
IsHexDigit(c) == \E d \in 1..16 : HexDigitsUpper[d] = c \/ HexDigitsLower[d] = c
HexValue(c) == (CHOOSE d \in 1..16 : HexDigitsUpper[d] = c \/ HexDigitsLower[d] = c) - 1

\* JSON whitespace: space, \n, \r, \t
IsJsonWhitespace(c) == c \in {" ", "\n", "\r", "\t"}

\* Characters below U+0020 may not appear raw inside a string
IsControlCharacter(c) ==
    c \in {"U+0000", "U+0001", "U+0002", "U+0003", "U+0004", "U+0005", "U+0006",
           "U+0007", "U+0008", "\t", "\n", "U+000B", "\f", "\r", "U+000E",
           "U+000F", "U+0010", "U+0011", "U+0012", "U+0013", "U+0014", "U+0015",
           "U+0016", "U+0017", "U+0018", "U+0019", "U+001A", "U+001B", "U+001C",
           "U+001D", "U+001E", "U+001F"}

JsonErr == [ok |-> FALSE, value |-> << >>, next |-> 0]
JsonOk(v, n) == [ok |-> TRUE, value |-> v, next |-> n]

RECURSIVE SkipWhitespace(_, _)
SkipWhitespace(s, i) ==
    IF i <= Len(s) /\ IsJsonWhitespace(s[i]) THEN SkipWhitespace(s, i + 1) ELSE i

\* The index after the run of decimal digits that starts at i
DigitsEnd(s, i) ==
    IF \A j \in i..Len(s) : IsDigit(s[j]) THEN Len(s) + 1
    ELSE CHOOSE j \in i..Len(s) : ~IsDigit(s[j]) /\ \A k \in i..(j - 1) : IsDigit(s[k])

RECURSIVE DecimalValue(_)
DecimalValue(text) ==
    IF text = << >> THEN 0
    ELSE DecimalValue(SubSeq(text, 1, Len(text) - 1)) * 10 + DigitValue(text[Len(text)])

\* a <= b for two runs of digits of equal length
RECURSIVE DigitsLeq(_, _)
DigitsLeq(a, b) ==
    IF a = << >> THEN TRUE
    ELSE IF DigitValue(Head(a)) # DigitValue(Head(b))
    THEN DigitValue(Head(a)) < DigitValue(Head(b))
    ELSE DigitsLeq(Tail(a), Tail(b))

\* a <= b for two runs of digits without leading zeros
DecimalLeq(a, b) ==
    Len(a) < Len(b) \/ (Len(a) = Len(b) /\ DigitsLeq(a, b))

S_u64_max == <<"1","8","4","4","6","7","4","4","0","7","3","7","0","9","5","5","1","6","1","5">>
\* 2^63, the magnitude of i64::MIN
S_i64_min_abs == <<"9","2","2","3","3","7","2","0","3","6","8","5","4","7","7","5","8","0","8">>

\* A run of digits without its leading zeros (zero is the empty run)
StripZeros(text) ==
    IF \A j \in DOMAIN text : text[j] = "0" THEN << >>
    ELSE SubSeq(text,
                CHOOSE j \in DOMAIN text :
                    text[j] # "0" /\ \A k \in 1..(j - 1) : text[k] = "0",
                Len(text))

\* The u64 significand sig after the first m of the digits were taken by
\* `significand * 10 + digit`
PushDigits(sig, digits, m) == StripZeros(sig \o SubSeq(digits, 1, m))

\* How many of the digits the significand takes: a digit is taken unless
\* `significand * 10 + digit` overflows u64, and the digits after the
\* first one refused are not taken either
DigitsTaken(sig, digits) ==
    CHOOSE m \in 0..Len(digits) :
        /\ DecimalLeq(PushDigits(sig, digits, m), S_u64_max)
        /\ \/ m = Len(digits)
           \/ ~DecimalLeq(PushDigits(sig, digits, m + 1), S_u64_max)

TakeDigits(sig, digits) == PushDigits(sig, digits, DigitsTaken(sig, digits))

\* The significand of a number with the integer digits int and the
\* fraction digits frac (parse_integer, parse_long_integer, parse_decimal)
Significand(int, frac) == TakeDigits(TakeDigits(<< >>, int), frac)

\* Its decimal exponent before the exponent part is read: one up for each
\* integer digit not taken, one down for each fraction digit taken
Exponent10(int, frac) ==
    (Len(int) - DigitsTaken(<< >>, int)) - DigitsTaken(TakeDigits(<< >>, int), frac)

\* For the exponents 289 .. 308, the least u64 significand s for which
\* (s as f64) * 1e<exponent> is infinite
Pow10Overflow ==
    << <<"1","7","9","7","6","9","3","1","3","4","8","6","2","3","1","5","6","2","2","5">>,
       <<"1","7","9","7","6","9","3","1","3","4","8","6","2","3","1","5","6","4","9">>,
       <<"1","7","9","7","6","9","3","1","3","4","8","6","2","3","1","6","0","0">>,
       <<"1","7","9","7","6","9","3","1","3","4","8","6","2","3","1","5","8">>,
       <<"1","7","9","7","6","9","3","1","3","4","8","6","2","3","1","6">>,
       <<"1","7","9","7","6","9","3","1","3","4","8","6","2","3","2">>,
       <<"1","7","9","7","6","9","3","1","3","4","8","6","2","4">>,
       <<"1","7","9","7","6","9","3","1","3","4","8","6","3">>,
       <<"1","7","9","7","6","9","3","1","3","4","8","7">>,
       <<"1","7","9","7","6","9","3","1","3","4","9">>,
       <<"1","7","9","7","6","9","3","1","3","5">>,
       <<"1","7","9","7","6","9","3","1","4">>,
       <<"1","7","9","7","6","9","3","2">>,
       <<"1","7","9","7","6","9","4">>,
       <<"1","7","9","7","7","0">>,
       <<"1","7","9","7","7">>,
       <<"1","7","9","8">>,
       <<"1","8","0">>,
       <<"1","8">>,
       <<"2">> >>

\* f64_from_parts returns NumberOutOfRange: the significand is not zero and
\* the exponent is past the table of powers of ten, or the product is
\* infinite
F64FromPartsOverflows(sig, exponent) ==
    /\ sig # << >>
    /\ \/ exponent > 308
       \/ exponent >= 289 /\ DecimalLeq(Pow10Overflow[exponent - 288], sig)

\* i32::saturating_add and i32::saturating_sub of an exponent b >= 0
SaturatingAdd(a, b) == IF a > 2147483647 - b THEN 2147483647 ELSE a + b
SaturatingSub(a, b) == IF a < (-2147483647 - 1) + b THEN -2147483647 - 1 ELSE a - b

\* parse_exponent on the digits exp_digits.  An exponent past i32::MAX
\* leaves the arithmetic (parse_exponent_overflow): the number is out of
\* range when the exponent is positive and the significand is not zero, and
\* reads as zero otherwise.  Any other exponent is added to starting_exp, or
\* subtracted from it, and the sum goes to f64_from_parts.
ExponentOverflows(sig, starting_exp, positive_exp, exp_digits) ==
    IF ~DecimalLeq(StripZeros(exp_digits), S_i32_max)
    THEN sig # << >> /\ positive_exp
    ELSE F64FromPartsOverflows(
             sig,
             IF positive_exp
             THEN SaturatingAdd(starting_exp, DecimalValue(StripZeros(exp_digits)))
             ELSE SaturatingSub(starting_exp, DecimalValue(StripZeros(exp_digits))))

\* parse_number on digits alone: U64, or I64 for a negative number down to
\* i64::MIN; -0 and what does not fit are floats
IsIntegerNumber(negative, int) ==
    IF negative
    THEN int # <<"0">> /\ DecimalLeq(int, S_i64_min_abs)
    ELSE DecimalLeq(int, S_u64_max)

\* A number: [-] (0 | [1-9][0-9]*) [. [0-9]+] [(e|E) [+|-] [0-9]+], read
\* part by part: the integer digits run from a to b - 1, the fraction
\* digits from b + 1 to c - 1 (c = b: no fraction), the exponent digits
\* from d to e - 1 (d = 0 and e = c: no exponent).  `integer` tells a
\* number read as U64 or I64.
FractionDigits(s, b, c) == IF c > b THEN SubSeq(s, b + 1, c - 1) ELSE << >>

\* The number is out of range, or it is the value of the text from i to
\* e - 1
NumberValue(s, i, b, e, int, frac, positive_exp, exp_digits) ==
    IF ExponentOverflows(Significand(int, frac), Exponent10(int, frac),
                         positive_exp, exp_digits)
    THEN JsonErr
    ELSE JsonOk([t |-> "number", text |-> SubSeq(s, i, e - 1),
                 integer |-> e = b /\ IsIntegerNumber(s[i] = "-", int)],
                e)

\* An exponent has one digit at least; its sign is the character before
\* its digits
NumberExponent(s, i, a, b, c, d, e) ==
    IF d # 0 /\ e = d THEN JsonErr
    ELSE NumberValue(s, i, b, e, SubSeq(s, a, b - 1), FractionDigits(s, b, c),
                     d = 0 \/ s[d - 1] # "-",
                     IF d = 0 THEN << >> ELSE SubSeq(s, d, e - 1))

NumberExponentDigits(s, i, a, b, c, d) ==
    NumberExponent(s, i, a, b, c, d, IF d = 0 THEN c ELSE DigitsEnd(s, d))

\* The index of the first digit of the exponent that starts at c, or 0
ExponentStart(s, c) ==
    IF c <= Len(s) /\ s[c] \in {"e", "E"}
    THEN (IF c + 1 <= Len(s) /\ s[c + 1] \in {"+", "-"} THEN c + 2 ELSE c + 1)
    ELSE 0

\* c is the index after the integer part and the fraction
NumberTail(s, i, a, b, c) ==
    NumberExponentDigits(s, i, a, b, c, ExponentStart(s, c))

\* The fraction's digits run from b + 1 to c - 1: one digit at least
NumberFraction(s, i, a, b, c) ==
    IF c = b + 1 THEN JsonErr ELSE NumberTail(s, i, a, b, c)

\* The index after the fraction that starts at b (b: there is none)
FractionEnd(s, b) ==
    IF b <= Len(s) /\ s[b] = "." THEN DigitsEnd(s, b + 1) ELSE b

\* The integer part runs from a to b - 1: one digit at least, and no digit
\* after a leading 0
NumberInteger(s, i, a, b) ==
    IF b = a \/ (s[a] = "0" /\ b # a + 1) THEN JsonErr
    ELSE NumberFraction(s, i, a, b, FractionEnd(s, b))

NumberDigits(s, i, a) == NumberInteger(s, i, a, DigitsEnd(s, a))

ParseNumber(s, i) == NumberDigits(s, i, IF s[i] = "-" THEN i + 1 ELSE i)

\* The value of the four hex digits at i, or -1
Hex4(s, i) ==
    IF i + 3 <= Len(s) /\ \A k \in i..(i + 3) : IsHexDigit(s[k])
    THEN HexValue(s[i]) * 4096 + HexValue(s[i + 1]) * 256
         + HexValue(s[i + 2]) * 16 + HexValue(s[i + 3])
    ELSE -1

RECURSIVE HexText(_, _)
HexText(n, width) ==
    IF width = 0 /\ n = 0 THEN ""
    ELSE HexText(n \div 16, IF width = 0 THEN 0 ELSE width - 1)
         \o HexDigitsUpper[(n % 16) + 1]

\* The character with code point n: itself where the model writes the
\* character directly, the token "U+XXXX" elsewhere
CharOfCode(n) ==
    IF n \in 32..126 THEN AsciiPrintable[n - 31]
    ELSE IF n = 9 THEN "\t"
    ELSE IF n = 10 THEN "\n"
    ELSE IF n = 12 THEN "\f"
    ELSE IF n = 13 THEN "\r"
    ELSE "U+" \o HexText(n, 4)

\* A leading surrogate hi at i and the escape after it, of value lo
SurrogatePair(i, hi, lo) ==
    IF lo \in 56320..57343
    THEN JsonOk(CharOfCode(65536 + (hi - 55296) * 1024 + (lo - 56320)), i + 10)
    ELSE JsonErr

\* The escape \uXXXX of value hi (i is the index after the `u`); a leading
\* surrogate needs a trailing one in a second escape, a lone surrogate is
\* an error
UnicodeEscape(s, i, hi) ==
    IF hi < 0 \/ hi \in 56320..57343 THEN JsonErr
    ELSE IF hi \in 55296..56319
    THEN IF i + 5 <= Len(s) /\ s[i + 4] = "\\" /\ s[i + 5] = "u"
         THEN SurrogatePair(i, hi, Hex4(s, i + 6))
         ELSE JsonErr
    ELSE JsonOk(CharOfCode(hi), i + 4)

ParseUnicodeEscape(s, i) == UnicodeEscape(s, i, Hex4(s, i))

\* The characters of a string whose opening quote is before i
RECURSIVE ParseStringChars(_, _, _)
RECURSIVE AfterUnicodeEscape(_, _, _)
ParseStringChars(s, i, acc) ==
    IF i > Len(s) THEN JsonErr
    ELSE IF s[i] = "\"" THEN JsonOk(acc, i + 1)
    ELSE IF s[i] = "\\"
    THEN IF i + 1 > Len(s) THEN JsonErr
         ELSE IF s[i + 1] \in {"\"", "\\", "/"}
         THEN ParseStringChars(s, i + 2, Append(acc, s[i + 1]))
         ELSE IF s[i + 1] = "n" THEN ParseStringChars(s, i + 2, Append(acc, "\n"))
         ELSE IF s[i + 1] = "r" THEN ParseStringChars(s, i + 2, Append(acc, "\r"))
         ELSE IF s[i + 1] = "t" THEN ParseStringChars(s, i + 2, Append(acc, "\t"))
         ELSE IF s[i + 1] = "f" THEN ParseStringChars(s, i + 2, Append(acc, "\f"))
         ELSE IF s[i + 1] = "b"
         THEN ParseStringChars(s, i + 2, Append(acc, CharOfCode(8)))
         ELSE IF s[i + 1] = "u"
         THEN AfterUnicodeEscape(s, acc, ParseUnicodeEscape(s, i + 2))
         ELSE JsonErr
    ELSE IF IsControlCharacter(s[i]) THEN JsonErr
    ELSE ParseStringChars(s, i + 1, Append(acc, s[i]))

AfterUnicodeEscape(s, acc, u) ==
    IF u.ok THEN ParseStringChars(s, u.next, Append(acc, u.value)) ELSE JsonErr

IsLiteralAt(s, i, lit) ==
    i + Len(lit) - 1 <= Len(s) /\ SubSeq(s, i, i + Len(lit) - 1) = lit

\* A string value from the result r of reading its characters
StringValue(r) ==
    IF r.ok THEN JsonOk([t |-> "string", chars |-> r.value], r.next) ELSE JsonErr

\* One JSON value starting at or after i0.  An object keeps its members in
\* the order of the text, duplicates included.
RECURSIVE ParseValue(_, _)
RECURSIVE ValueAt(_, _)
RECURSIVE ParseElements(_, _, _)
RECURSIVE AfterElement(_, _, _)
RECURSIVE ElementSeparator(_, _, _)
RECURSIVE ParseMembers(_, _, _)
RECURSIVE MemberKey(_, _, _)
RECURSIVE MemberColon(_, _, _)
RECURSIVE MemberColonAt(_, _, _, _)
RECURSIVE MemberValue(_, _, _, _)
RECURSIVE MemberSeparator(_, _, _)
ParseValue(s, i0) == ValueAt(s, SkipWhitespace(s, i0))

\* The value whose first character is at i
ValueAt(s, i) ==
    IF i > Len(s) THEN JsonErr
    ELSE IF s[i] = "n"
    THEN IF IsLiteralAt(s, i, S_null) THEN JsonOk([t |-> "null"], i + 4) ELSE JsonErr
    ELSE IF s[i] = "t"
    THEN IF IsLiteralAt(s, i, S_true)
         THEN JsonOk([t |-> "bool", b |-> TRUE], i + 4) ELSE JsonErr
    ELSE IF s[i] = "f"
    THEN IF IsLiteralAt(s, i, S_false)
         THEN JsonOk([t |-> "bool", b |-> FALSE], i + 5) ELSE JsonErr
    ELSE IF s[i] = "\"" THEN StringValue(ParseStringChars(s, i + 1, << >>))
    ELSE IF s[i] = "[" THEN ParseElements(s, SkipWhitespace(s, i + 1), << >>)
    ELSE IF s[i] = "{" THEN ParseMembers(s, SkipWhitespace(s, i + 1), << >>)
    ELSE IF s[i] = "-" \/ IsDigit(s[i]) THEN ParseNumber(s, i)
    ELSE JsonErr

\* The elements of an array from i on, after the elements acc: the
\* closing bracket of an empty array, or an element
ParseElements(s, i, acc) ==
    IF acc = << >> /\ i <= Len(s) /\ s[i] = "]"
    THEN JsonOk([t |-> "array", items |-> << >>], i + 1)
    ELSE AfterElement(s, acc, ParseValue(s, i))

AfterElement(s, acc, v) ==
    IF v.ok THEN ElementSeparator(s, Append(acc, v.value), SkipWhitespace(s, v.next))
    ELSE JsonErr

\* A comma and the next element, or the closing bracket
ElementSeparator(s, acc, j) ==
    IF j > Len(s) THEN JsonErr
    ELSE IF s[j] = "," THEN ParseElements(s, j + 1, acc)
    ELSE IF s[j] = "]" THEN JsonOk([t |-> "array", items |-> acc], j + 1)
    ELSE JsonErr

\* The members of an object from i0 on, after the members acc: the closing
\* brace of an empty object, or a member `"key" : value`
ParseMembers(s, i0, acc) == MemberKey(s, acc, SkipWhitespace(s, i0))

MemberKey(s, acc, i) ==
    IF i > Len(s) THEN JsonErr
    ELSE IF acc = << >> /\ s[i] = "}"
    THEN JsonOk([t |-> "object", members |-> << >>], i + 1)
    ELSE IF s[i] # "\"" THEN JsonErr
    ELSE MemberColon(s, acc, ParseStringChars(s, i + 1, << >>))

\* k is the key read
MemberColon(s, acc, k) ==
    IF k.ok THEN MemberColonAt(s, acc, k.value, SkipWhitespace(s, k.next))
    ELSE JsonErr

\* The colon at c and the value after it
MemberColonAt(s, acc, key, c) ==
    IF c > Len(s) THEN JsonErr
    ELSE IF s[c] # ":" THEN JsonErr
    ELSE MemberValue(s, acc, key, ParseValue(s, c + 1))

MemberValue(s, acc, key, v) ==
    IF v.ok
    THEN MemberSeparator(s, Append(acc, [key |-> key, value |-> v.value]),
                         SkipWhitespace(s, v.next))
    ELSE JsonErr

\* A comma and the next member, or the closing brace
MemberSeparator(s, acc, j) ==
    IF j > Len(s) THEN JsonErr
    ELSE IF s[j] = "," THEN ParseMembers(s, j + 1, acc)
    ELSE IF s[j] = "}" THEN JsonOk([t |-> "object", members |-> acc], j + 1)
    ELSE JsonErr

\* How deep the arrays and objects of a value are nested
RECURSIVE NestingDepth(_)
NestingDepth(v) ==
    IF v.t = "array"
    THEN 1 + Cardinality(UNION {1..NestingDepth(v.items[k]) : k \in DOMAIN v.items})
    ELSE IF v.t = "object"
    THEN 1 + Cardinality(UNION {1..NestingDepth(v.members[k].value) :
                                    k \in DOMAIN v.members})
    ELSE 0

\* The whole text is one value r, whitespace around it allowed; the
\* deserializer gives up where arrays and objects are nested 128 deep
WholeDocument(data, r) ==
    IF /\ r.ok
       /\ SkipWhitespace(data, r.next) > Len(data)
       /\ NestingDepth(r.value) < 128
    THEN Some(r.value) ELSE None

ParseDocument(data) == WholeDocument(data, ParseValue(data, 1))

\* serde_json::Value of a parsed value: an object is a map from key to
\* value in which the last of several equal keys wins
RECURSIVE ToValue(_)
RECURSIVE ObjectMap(_)
ToValue(v) ==
    IF v.t = "array"
    THEN [t |-> "array", items |-> [k \in DOMAIN v.items |-> ToValue(v.items[k])]]
    ELSE IF v.t = "object" THEN [t |-> "object", map |-> ObjectMap(v.members)]
    ELSE v

\* The last member of the given key
LastMember(members, key) ==
    members[CHOOSE k \in DOMAIN members :
                /\ members[k].key = key
                /\ \A k2 \in DOMAIN members : members[k2].key = key => k2 <= k]

ObjectMap(members) ==
    [key \in {members[k].key : k \in DOMAIN members} |->
         ToValue(LastMember(members, key).value)]

FieldValues(members, name) == SelectSeq(members, LAMBDA m : m.key = name)
OtherMembers(members, names) == SelectSeq(members, LAMBDA m : m.key \notin names)

\* A value a u32 field accepts: an integer in 0 ..= u32::MAX
IsU32(v) ==
    /\ v.t = "number"
    /\ v.integer
    /\ v.text[1] # "-"
    /\ DecimalLeq(v.text, S_u32_max)

\* The u32 written by the digits: the number itself up to 2^31 - 1, where
\* the numbers of the model end, and its digits above that
U32Value(text) ==
    IF DecimalLeq(text, S_i32_max) THEN DecimalValue(text) ELSE text

\* An Option<String> field from the values vs given to it: absent or null
\* is None, a string is Some, any other value and a field given twice are
\* errors
OptionalStringOf(vs) ==
    IF vs = << >> THEN [ok |-> TRUE, value |-> None]
    ELSE IF Len(vs) > 1 THEN [ok |-> FALSE, value |-> None]
    ELSE IF vs[1].value.t = "null" THEN [ok |-> TRUE, value |-> None]
    ELSE IF vs[1].value.t = "string"
    THEN [ok |-> TRUE, value |-> Some(vs[1].value.chars)]
    ELSE [ok |-> FALSE, value |-> None]

OptionalString(members, name) == OptionalStringOf(FieldValues(members, name))

\* #[derive(Deserialize)] of DevAction: `type`, with the values ty given to
\* it, is required; every other member goes to `extra`
DevActionOf(members, ty) ==
    IF Len(ty) # 1 THEN None
    ELSE IF ~IsU32(ty[1].value) THEN None
    ELSE Some([action_type |-> U32Value(ty[1].value.text),
               extra |-> ObjectMap(OtherMembers(members, {S_type}))])

Deserialize_DevAction(v) ==
    IF v.t # "object" THEN None
    ELSE DevActionOf(v.members, FieldValues(v.members, S_type))

DevSourceOf(members, title, url) ==
    IF ~title.ok \/ ~url.ok THEN None
    ELSE Some([title |-> title.value, url |-> url.value,
               extra |-> ObjectMap(OtherMembers(members, {S_title, S_url}))])

Deserialize_DevSource(v) ==
    IF v.t # "object" THEN None
    ELSE DevSourceOf(v.members, OptionalString(v.members, S_title),
                     OptionalString(v.members, S_url))

DevGithubSourceOf(members, repo, file_path) ==
    IF ~repo.ok \/ ~file_path.ok THEN None
    ELSE Some([repo |-> repo.value, file_path |-> file_path.value,
               extra |-> ObjectMap(OtherMembers(members, {S_repo, S_filePath}))])

Deserialize_DevGithubSource(v) ==
    IF v.t # "object" THEN None
    ELSE DevGithubSourceOf(v.members, OptionalString(v.members, S_repo),
                           OptionalString(v.members, S_filePath))

\* Ok of all the elements, or the error of one
CollectVec(rs) ==
    IF \E k \in DOMAIN rs : rs[k] = None THEN None
    ELSE Some([k \in DOMAIN rs |-> rs[k][1]])

\* Vec<T>, T one of DevSource and DevGithubSource: an array every element
\* of which deserializes
Deserialize_Vec(v, T) ==
    IF v.t # "array" THEN None
    ELSE IF T = "DevSource"
    THEN CollectVec([k \in DOMAIN v.items |-> Deserialize_DevSource(v.items[k])])
    ELSE CollectVec([k \in DOMAIN v.items |-> Deserialize_DevGithubSource(v.items[k])])

\* T::deserialize on the parsed document, if there is one
Deserialize(doc, T) ==
    IF doc = None THEN None
    ELSE IF T = "DevAction" THEN Deserialize_DevAction(doc[1])
    ELSE Deserialize_Vec(doc[1], T)

\* A variant that turns a text it cannot parse into a default action
DefaultIfNone(a) == IF a # None THEN a ELSE Some([action_type |-> 0, extra |-> << >>])

safe_json_parse_DevAction_Lenient(data) ==
    DefaultIfNone(Deserialize(ParseDocument(data), "DevAction"))

safe_json_parse_DevAction(data) == Deserialize(ParseDocument(data), "DevAction")

safe_json_parse_DevSources(data) == Deserialize(ParseDocument(data), "DevSource")

safe_json_parse_DevGithubSources(data) ==
    Deserialize(ParseDocument(data), "DevGithubSource")

\* A variant that keeps only the last piece of content
AppendText_Replaces(text, delta_content) == delta_content

\* `accumulator.text += &delta_content`
AppendText(text, delta_content) == text \o delta_content

(***************************************************************************)
(* Event dispatch: [acc, chunk] with chunk an Option                       *)
(***************************************************************************)
\* The arms of the match on what safe_json_parse returned: Some(a) is
\* pushed or assigned, None leaves the accumulator alone
PushAction(acc, a) ==
    IF a # None THEN [acc EXCEPT !.actions = Append(@, a[1])] ELSE acc

SetSources(acc, s) ==
    IF s # None THEN [acc EXCEPT !.sources = s[1]] ELSE acc

SetGithubSources(acc, gs) ==
    IF gs # None THEN [acc EXCEPT !.github_sources = gs[1]] ELSE acc

\* Variants that add the parsed entries to the list
AppendSources(acc, s) ==
    IF s # None THEN [acc EXCEPT !.sources = @ \o s[1]] ELSE acc

AppendGithubSources(acc, gs) ==
    IF gs # None THEN [acc EXCEPT !.github_sources = @ \o gs[1]] ELSE acc

\* A variant whose sources and repoSources arms add the parsed entries to
\* the lists instead of replacing them
process_single_dev_event_SourcesAppend(acc, event_name, data, req_id, model) ==
    IF event_name \in {S_message, S_content, S_c}
    THEN IF data = << >>
         THEN [acc |-> acc, chunk |-> None]
         ELSE [acc |-> [acc EXCEPT !.text = @ \o data],
               chunk |-> Some(create_content_chunk(req_id, model, data))]
    ELSE IF event_name = S_action
    THEN [acc |-> PushAction(acc, safe_json_parse_DevAction(data)), chunk |-> None]
    ELSE IF event_name = S_sources
    THEN [acc |-> AppendSources(acc, safe_json_parse_DevSources(data)), chunk |-> None]
    ELSE IF event_name = S_repoSources
    THEN [acc |-> AppendGithubSources(acc, safe_json_parse_DevGithubSources(data)),
          chunk |-> None]
    ELSE IF event_name \in {S_rlq, S_q}
    THEN [acc |-> IF data # << >>
                  THEN [acc EXCEPT !.related_questions_raw = @ \o <<"\n">> \o Trim(data)]
                  ELSE acc,
          chunk |-> None]
    ELSE IF event_name = S_r
    THEN [acc |-> [acc EXCEPT !.reasoning =
                       IF @ = None THEN Some(data) ELSE Some(@[1] \o data)],
          chunk |-> None]
    ELSE IF event_name = S_threadId
    THEN [acc |-> [acc EXCEPT !.thread_id = Some(data)], chunk |-> None]
    ELSE IF event_name = S_queryMessageId
    THEN [acc |-> [acc EXCEPT !.query_message_id = Some(data)], chunk |-> None]
    ELSE IF event_name = S_answerMessageId
    THEN [acc |-> [acc EXCEPT !.answer_message_id = Some(data)], chunk |-> None]
    ELSE IF event_name = S_threadTitle
    THEN [acc |-> [acc EXCEPT !.thread_title = Some(data)], chunk |-> None]
    ELSE IF event_name = S_error
    THEN [acc |-> [acc EXCEPT !.error = Some(data), !.is_finished = TRUE],
          chunk |-> Some(create_error_chunk(req_id, model, data))]
    ELSE [acc |-> acc, chunk |-> None]

\* A variant whose default arm appends the data of an event it does not
\* know to the text
process_single_dev_event_UnknownAppends(acc, event_name, data, req_id, model) ==
    IF event_name \in {S_message, S_content, S_c}
    THEN IF data = << >>
         THEN [acc |-> acc, chunk |-> None]
         ELSE [acc |-> [acc EXCEPT !.text = @ \o data],
               chunk |-> Some(create_content_chunk(req_id, model, data))]
    ELSE IF event_name = S_action
    THEN [acc |-> PushAction(acc, safe_json_parse_DevAction(data)), chunk |-> None]
    ELSE IF event_name = S_sources
    THEN [acc |-> SetSources(acc, safe_json_parse_DevSources(data)), chunk |-> None]
    ELSE IF event_name = S_repoSources
    THEN [acc |-> SetGithubSources(acc, safe_json_parse_DevGithubSources(data)),
          chunk |-> None]
    ELSE IF event_name \in {S_rlq, S_q}
    THEN [acc |-> IF data # << >>
                  THEN [acc EXCEPT !.related_questions_raw = @ \o <<"\n">> \o Trim(data)]
                  ELSE acc,
          chunk |-> None]
    ELSE IF event_name = S_r
    THEN [acc |-> [acc EXCEPT !.reasoning =
                       IF @ = None THEN Some(data) ELSE Some(@[1] \o data)],
          chunk |-> None]
    ELSE IF event_name = S_threadId
    THEN [acc |-> [acc EXCEPT !.thread_id = Some(data)], chunk |-> None]
    ELSE IF event_name = S_queryMessageId
    THEN [acc |-> [acc EXCEPT !.query_message_id = Some(data)], chunk |-> None]
    ELSE IF event_name = S_answerMessageId
    THEN [acc |-> [acc EXCEPT !.answer_message_id = Some(data)], chunk |-> None]
    ELSE IF event_name = S_threadTitle
    THEN [acc |-> [acc EXCEPT !.thread_title = Some(data)], chunk |-> None]
    ELSE IF event_name = S_error
    THEN [acc |-> [acc EXCEPT !.error = Some(data), !.is_finished = TRUE],
          chunk |-> Some(create_error_chunk(req_id, model, data))]
    ELSE IF event_name = S_finish
    THEN [acc |-> acc, chunk |-> None]
    ELSE [acc |-> [acc EXCEPT !.text = @ \o data], chunk |-> None]

process_single_dev_event(acc, event_name, data, req_id, model) ==
    IF event_name \in {S_message, S_content, S_c}
    THEN IF data = << >>
         THEN [acc |-> acc, chunk |-> None]
         ELSE [acc |-> [acc EXCEPT !.text = AppendText(@, data)],
               chunk |-> Some(create_content_chunk(req_id, model, data))]
    ELSE IF event_name = S_action
    THEN [acc |-> PushAction(acc, safe_json_parse_DevAction(data)), chunk |-> None]
    ELSE IF event_name = S_sources
    THEN [acc |-> SetSources(acc, safe_json_parse_DevSources(data)), chunk |-> None]
    ELSE IF event_name = S_repoSources
    THEN [acc |-> SetGithubSources(acc, safe_json_parse_DevGithubSources(data)),
          chunk |-> None]
    ELSE IF event_name \in {S_rlq, S_q}
    THEN [acc |-> IF data # << >>
                  THEN [acc EXCEPT !.related_questions_raw = @ \o <<"\n">> \o Trim(data)]
                  ELSE acc,
          chunk |-> None]
    ELSE IF event_name = S_r
    THEN [acc |-> [acc EXCEPT !.reasoning =
                       IF @ = None THEN Some(data) ELSE Some(@[1] \o data)],
          chunk |-> None]
    ELSE IF event_name = S_threadId
    THEN [acc |-> [acc EXCEPT !.thread_id = Some(data)], chunk |-> None]
    ELSE IF event_name = S_queryMessageId
    THEN [acc |-> [acc EXCEPT !.query_message_id = Some(data)], chunk |-> None]
    ELSE IF event_name = S_answerMessageId
    THEN [acc |-> [acc EXCEPT !.answer_message_id = Some(data)], chunk |-> None]
    ELSE IF event_name = S_threadTitle
    THEN [acc |-> [acc EXCEPT !.thread_title = Some(data)], chunk |-> None]
    ELSE IF event_name = S_error
    THEN [acc |-> [acc EXCEPT !.error = Some(data), !.is_finished = TRUE],
          chunk |-> Some(create_error_chunk(req_id, model, data))]
    ELSE [acc |-> acc, chunk |-> None]

(***************************************************************************)
(* Upstream byte source: the items it can deliver                          *)
(***************************************************************************)
\* "data: a\n\n": a complete event under the default name
B_message == <<"d","a","t","a",":"," ","a","\n","\n">>
\* "event: error\ndata: x\n\n"
B_error == <<"e","v","e","n","t",":"," ","e","r","r","o","r","\n","d","a","t","a",":"," ","x","\n","\n">>
\* "event: q\ndata: b\n\n"
B_q == <<"e","v","e","n","t",":"," ","q","\n","d","a","t","a",":"," ","b","\n","\n">>
\* "data: a\n": a data line whose event is not terminated yet
B_data == <<"d","a","t","a",":"," ","a","\n">>
\* "\r\n": a blank line
B_blank == <<"\r","\n">>
\* "event: error\n"
B_event_error == <<"e","v","e","n","t",":"," ","e","r","r","o","r","\n">>
\* "data: a": a line without its newline
B_partial == <<"d","a","t","a",":"," ","a">>
\* "data:\n": a data line with nothing after the colon
B_data_empty == <<"d","a","t","a",":","\n">>
\* "data: a\r": a line cut between its carriage return and its newline
B_cr == <<"d","a","t","a",":"," ","a","\r">>
\* "\n"
B_lf == <<"\n">>
\* The second byte of that character and a blank line
B_rest == <<"xA9","\n","\n">>
\* "data: " followed by the first byte of a two-byte character
B_split == <<"d","a","t","a",":"," ","xC3">>
\* "event: content\ndata: a\n\n"
B_content == <<"e","v","e","n","t",":"," ","c","o","n","t","e","n","t","\n","d","a","t","a",":"," ","a","\n","\n">>
\* "data: a\n\ndata: a\n\n": two events in one chunk
B_two == B_message \o B_message
\* "event: rlq\ndata:  c <FF>\ndata: <VT><NBSP>d\n\n": two data lines padded
\* with a space, a form feed, a vertical tab and a no-break space (the
\* bytes 0xC2 0xA0)
B_rlq == <<"e","v","e","n","t",":"," ","r","l","q","\n","d","a","t","a",":"," "," ","c"," ","\f","\n","d","a","t","a",":"," ","U+000B","xC2","xA0","d","\n","\n">>
\* "event: q\ndata:  \n\n": data of one space
B_q_blank == <<"e","v","e","n","t",":"," ","q","\n","d","a","t","a",":"," "," ","\n","\n">>
\* "event: q\ndata: b\n": a q event whose blank line never comes
B_q_open == <<"e","v","e","n","t",":"," ","q","\n","d","a","t","a",":"," ","b","\n">>
\* "event: content\ndata: a": a content event cut inside its data line
B_content_open == <<"e","v","e","n","t",":"," ","c","o","n","t","e","n","t","\n","d","a","t","a",":"," ","a">>
\* "event: action\ndata: {\"type\":1}\n\n": an action that parses
B_action == <<"e","v","e","n","t",":"," ","a","c","t","i","o","n","\n","d","a","t","a",":"," ">> \o J_action1 \o <<"\n","\n">>
\* An action, a sources and a repoSources event whose data is not JSON: an
\* object key left open, a number out of range, a raw tab inside a string
B_action_bad == <<"e","v","e","n","t",":"," ","a","c","t","i","o","n","\n","d","a","t","a",":"," ">> \o J_action_unclosed \o <<"\n","\n">>
B_sources_bad == <<"e","v","e","n","t",":"," ","s","o","u","r","c","e","s","\n","d","a","t","a",":"," ">> \o J_sources_range \o <<"\n","\n">>
B_repo_bad == <<"e","v","e","n","t",":"," ","r","e","p","o","S","o","u","r","c","e","s","\n","d","a","t","a",":"," ">> \o J_repo_control \o <<"\n","\n">>

ByteChunks == {B_message, B_error, B_q, B_data, B_blank, B_event_error, B_partial,
               B_split, B_data_empty, B_rest, B_cr, B_lf}

\* Some(Ok(bytes)) or Some(Err(e)); the end of the sequence is None
StreamItems == [kind : {"bytes"}, bytes : ByteChunks] \cup {[kind |-> "err", bytes |-> << >>]}

\* A second repertoire, of whole events: questions, payloads that are not
\* JSON, content, an error event, and the two faults
EventChunks == {B_content, B_q, B_rlq, B_q_blank, B_q_open, B_content_open, B_action,
                B_action_bad, B_sources_bad, B_repo_bad, B_error, B_split, B_two}

EventItems == [kind : {"bytes"}, bytes : EventChunks] \cup {[kind |-> "err", bytes |-> << >>]}

\* Display text of the transport error
E_reqwest == <<"r","e","s","e","t">>

RECURSIVE SeqsUpTo(_, _)
SeqsUpTo(set, n) ==
    IF n = 0 THEN {<< >>}
    ELSE LET shorter == SeqsUpTo(set, n - 1)
         IN  shorter \cup {Append(q, x) : q \in {r \in shorter : Len(r) = n - 1}, x \in set}

ModelOptions == {None, Some(<<"m","1">>)}

(***************************************************************************)
(* State                                                                   *)
(***************************************************************************)
VARIABLES
    \* State of the unfold closure (sse_processor.rs)
    byte_stream, decoder_buffer, accumulator, current_event_name,
    current_data_buffer, model_name, request_id, final_chunk_sent,
    \* position of the closure: "idle" (between pulls), "lines" (draining
    \* buffered lines), "read" (awaiting byte_stream.next()), "done" (the
    \* stream returned None)
    pc,
    \* the chunks yielded to the consumer, in order
    output,
    \* observation only: number of byte_stream.next() calls, characters
    \* drained from decoder_buffer, offset of the first pending data line,
    \* the calls of process_single_dev_event, for each yielded chunk the
    \* offset of the event that triggered it (0: none), and whether the
    \* stream ended without a chunk on source exhaustion
    reads, consumed, data_start, dispatched, origin, silent_end,
    \* observation only: the text pushed onto decoder_buffer so far
    received,
    \* Signing bridge (wasm_signer.rs): the holder of the mutex (0: free),
    \* its poison flag, the module's allocated blocks and linear memory,
    \* each caller's position and locals, the number of calls started
    lock, poisoned, heap, mem, call, calls_started,
    \* process_single_dev_event called directly: the accumulator passed by
    \* reference, the (name, data) pairs handled so far, the last return value
    ev_acc, ev_log, ev_chunk,
    \* The lazily initialized signer (wasm_signer.rs:32-35): the cell, the
    \* number of times WasmSigner::new ran, each caller of get_instance, the
    \* number of get_instance calls started, and what the calls returned
    WASM_SIGNER, loads, gi, gi_started, gi_results,
    \* The provider (rust_proxy.rs): its filter, its two caches, the task
    \* holding the write guard of available_models (0: none), each task's
    \* position and locals, the number of operations started;
    \* observation only: the list the first successful discover_models call
    \* since the last clear_model_cache call returned, and whether any API
    \* request has succeeded
    model_filter, available_models, validated_models, am_writer, pv, pv_ops,
    first_success, fetch_ok,
    \* the model name the provider was configured with, after mapping
    effective_model_name,
    \* the lists the models endpoint can answer get_models with
    api_lists,
    \* observation only, kept where it is switched on: the
    \* clear_model_cache calls counted (epoch), the number of the last one
    \* that returned (cleared), and the count under which the cached list
    \* and each cached verdict were fetched
    pv_clock,
    \* The embeddings endpoint (endpoints/embeddings.rs): the handler's
    \* position, its request, `inputs`, `embeddings`, what it returned;
    \* observation only: the embed calls made, each with its answer
    emb_pc, emb_req, emb_inputs, embeddings, emb_ret, embed_calls

sse_vars == << byte_stream, decoder_buffer, accumulator, current_event_name,
               current_data_buffer, model_name, request_id, final_chunk_sent,
               pc, output, reads, consumed, data_start, dispatched, origin,
               silent_end, received >>

sign_vars == << lock, poisoned, heap, mem, call, calls_started >>

ev_vars == << ev_acc, ev_log, ev_chunk >>

loader_vars == << WASM_SIGNER, loads, gi, gi_started, gi_results >>

prov_vars == << model_filter, available_models, validated_models, am_writer,
               pv, pv_ops, first_success, fetch_ok, pv_clock,
               effective_model_name, api_lists >>

emb_vars == << emb_pc, emb_req, emb_inputs, embeddings, emb_ret, embed_calls >>

vars == << sse_vars, sign_vars, ev_vars, loader_vars, prov_vars, emb_vars >>

\* What the steps of one component leave alone
non_sse_vars == << sign_vars, ev_vars, loader_vars, prov_vars, emb_vars >>
non_sign_vars == << sse_vars, ev_vars, loader_vars, prov_vars, emb_vars >>
non_ev_vars == << sse_vars, sign_vars, loader_vars, prov_vars, emb_vars >>
non_loader_vars == << sse_vars, sign_vars, ev_vars, prov_vars, emb_vars >>
non_prov_vars == << sse_vars, sign_vars, ev_vars, loader_vars, emb_vars >>
\* What a step of infer that calls the signer leaves alone
non_infer_vars == << sse_vars, ev_vars, loader_vars, emb_vars >>
non_emb_vars == << sse_vars, sign_vars, ev_vars, loader_vars, prov_vars >>

(***************************************************************************)
(* The loop over buffered lines                                            *)
(***************************************************************************)
\* One dispatch of the pending event: the accumulator, the chunk, the log
Dispatch(st) ==
    LET joined_data == JoinLines(st.current_data_buffer)
        r == process_single_dev_event(st.accumulator, st.current_event_name,
                                      joined_data, st.request_id, st.model_name)
    IN  [st EXCEPT !.accumulator = r.acc,
                   !.event_chunk = r.chunk,
                   !.chunk_origin = st.data_start,
                   !.dispatched = Append(@, [name |-> st.current_event_name,
                                             data |-> joined_data,
                                             start |-> st.data_start])]

\* A variant that leaves the data lines of the event in place when its
\* chunk is yielded
YieldEvent_KeepsData(d) == d

\* The event produced a chunk: clear the data lines and leave the loop
\* (the event name is not reset on this path)
YieldEvent(d) ==
    [d EXCEPT !.current_data_buffer = << >>, !.data_start = 0]

\* A variant that looks at the joined text of the data lines instead
HasPendingData_JoinedText(buf) == JoinLines(buf) # << >>

\* `!state.current_data_buffer.is_empty()`
HasPendingData(buf) == buf # << >>

\* `while let Some(newline_pos) = decoder_buffer.find('\n')`, until the
\* buffer holds no newline or an event produced a chunk (break)
RECURSIVE DrainLines(_)
DrainLines(st) ==
    LET newline_pos == Find(st.decoder_buffer, "\n")
    IN  IF newline_pos = 0 THEN st
        ELSE
        LET raw == SubSeq(st.decoder_buffer, 1, newline_pos)
            rest == SubSeq(st.decoder_buffer, newline_pos + 1, Len(st.decoder_buffer))
            line == TrimEndMatches(TrimEndMatches(raw, "\n"), "\r")
            p == parse_sse_line(line)
            s1 == [st EXCEPT !.decoder_buffer = rest,
                             !.consumed = @ + newline_pos]
        IN  IF p.kind = "Event"
            THEN DrainLines([s1 EXCEPT !.current_event_name = p.value])
            ELSE IF p.kind = "Data"
            THEN DrainLines([s1 EXCEPT
                     !.current_data_buffer = Append(@, p.value),
                     !.data_start = IF st.current_data_buffer = << >>
                                    THEN st.consumed + 1 ELSE @])
            ELSE IF p.kind = "Empty"
            THEN IF HasPendingData(s1.current_data_buffer)
                 THEN LET d == Dispatch(s1)
                      IN  IF d.event_chunk # None
                          THEN YieldEvent(d)
                          ELSE DrainLines([d EXCEPT
                                   !.current_data_buffer = << >>,
                                   !.data_start = 0,
                                   !.current_event_name = S_message])
                 ELSE DrainLines([s1 EXCEPT !.current_event_name = S_message])
            ELSE DrainLines(s1)

\* `for line in decoder_buffer.lines()` of the end-of-stream branch
RECURSIVE ResidualLines(_, _)
ResidualLines(st, ls) ==
    IF ls = << >> THEN st
    ELSE LET p == parse_sse_line(ls[1])
         IN  IF p.kind = "Event"
             THEN ResidualLines([st EXCEPT !.current_event_name = p.value], Tail(ls))
             ELSE IF p.kind = "Data"
             THEN ResidualLines([st EXCEPT
                      !.current_data_buffer = Append(@, p.value),
                      !.data_start = IF st.current_data_buffer = << >>
                                     THEN st.consumed + 1 ELSE @], Tail(ls))
             ELSE ResidualLines(st, Tail(ls))

\* The end-of-stream branch up to `state.decoder_buffer.clear()`
Residual(st) ==
    IF st.decoder_buffer # << >>
    THEN LET s1 == ResidualLines(st, StrLines(st.decoder_buffer))
             s2 == IF s1.current_data_buffer # << >>
                   THEN [Dispatch(s1) EXCEPT !.event_chunk = None, !.chunk_origin = 0]
                   ELSE s1
         IN  [s2 EXCEPT !.decoder_buffer = << >>,
                        !.consumed = @ + Len(st.decoder_buffer)]
    ELSE st

\* A variant that holds back an incomplete character at the end of a chunk
DecodeChunk_HoldsBackTail(bytes) ==
    IF bytes # << >> /\ IsLeadByte(bytes[Len(bytes)])
    THEN from_utf8(SubSeq(bytes, 1, Len(bytes) - 1))
    ELSE from_utf8(bytes)

\* `str::from_utf8(&bytes)` on the chunk just received
DecodeChunk(bytes) == from_utf8(bytes)

\* A variant that keeps only the text of the last chunk
PushStr_Replaces(buffer, text) == text

\* `state.decoder_buffer.push_str(text)`
PushStr(buffer, text) == buffer \o text

\* The closure's state as one record
State ==
    [ decoder_buffer |-> decoder_buffer,
      accumulator |-> accumulator,
      current_event_name |-> current_event_name,
      current_data_buffer |-> current_data_buffer,
      model_name |-> model_name,
      request_id |-> request_id,
      event_chunk |-> None,
      chunk_origin |-> 0,
      consumed |-> consumed,
      data_start |-> data_start,
      dispatched |-> dispatched ]

SetState(st) ==
    /\ decoder_buffer' = st.decoder_buffer
    /\ accumulator' = st.accumulator
    /\ current_event_name' = st.current_event_name
    /\ current_data_buffer' = st.current_data_buffer
    /\ consumed' = st.consumed
    /\ data_start' = st.data_start
    /\ dispatched' = st.dispatched

(***************************************************************************)
(* Transducer actions                                                      *)
(***************************************************************************)
SseInitWith(items) ==
    /\ byte_stream \in SeqsUpTo(items, MaxReads)
    /\ decoder_buffer = << >>
    /\ accumulator = SseAccumulator_default
    /\ current_event_name = S_message
    /\ current_data_buffer = << >>
    /\ \E m \in ModelOptions :
           model_name = IF m = None THEN S_unknown_model ELSE m[1]
    /\ request_id = <<"r","1">>
    /\ final_chunk_sent = FALSE
    /\ pc = "idle"
    /\ output = << >>
    /\ reads = 0
    /\ consumed = 0
    /\ data_start = 0
    /\ dispatched = << >>
    /\ origin = << >>
    /\ silent_end = FALSE
    /\ received = << >>

SseInit == SseInitWith(StreamItems)

\* A variant that keeps the stream pending once the final chunk was sent
AfterPull_StaysPending == IF final_chunk_sent THEN "idle" ELSE "lines"

\* A variant that does not look at final_chunk_sent: the call after the
\* closing chunk runs the line loop and reads the source once more
AfterPull_IgnoresClosed == "lines"

\* A variant that awaits the source before looking at the buffer
AfterPull_ReadsFirst == IF final_chunk_sent THEN "done" ELSE "read"

\* Where a call of the closure starts: `if state.final_chunk_sent { return
\* None; }`, else the line loop
AfterPull == IF final_chunk_sent THEN "done" ELSE "lines"

\* The consumer polls the stream: the closure starts, or ends the stream
\* when the final chunk was sent by the previous call
Pull ==
    /\ pc = "idle"
    /\ pc' = AfterPull
    /\ UNCHANGED << byte_stream, decoder_buffer, accumulator, current_event_name,
                    current_data_buffer, model_name, request_id, final_chunk_sent,
                    output, reads, consumed, data_start, dispatched, origin,
                    silent_end, received >>
    /\ UNCHANGED non_sse_vars

\* Process buffered lines; yield the chunk of an event, or go on to read
ProcessBufferedLines ==
    /\ pc = "lines"
    /\ LET st == DrainLines(State)
       IN  /\ SetState(st)
           /\ IF st.event_chunk # None
              THEN /\ output' = Append(output, st.event_chunk[1])
                   /\ origin' = Append(origin, st.chunk_origin)
                   /\ pc' = "idle"
              ELSE /\ UNCHANGED << output, origin >>
                   /\ pc' = "read"
    /\ UNCHANGED << byte_stream, model_name, request_id, final_chunk_sent,
                    reads, silent_end, received >>
    /\ UNCHANGED non_sse_vars

\* byte_stream.next() = Some(Ok(bytes)), bytes valid UTF-8
ReadBytes ==
    /\ pc = "read"
    /\ byte_stream # << >>
    /\ Head(byte_stream).kind = "bytes"
    /\ DecodeChunk(Head(byte_stream).bytes).ok
    /\ decoder_buffer' = PushStr(decoder_buffer, DecodeChunk(Head(byte_stream).bytes).text)
    /\ received' = received \o DecodeChunk(Head(byte_stream).bytes).text
    /\ byte_stream' = Tail(byte_stream)
    /\ reads' = reads + 1
    /\ pc' = "lines"
    /\ UNCHANGED << accumulator, current_event_name, current_data_buffer,
                    model_name, request_id, final_chunk_sent, output, consumed,
                    data_start, dispatched, origin, silent_end >>
    /\ UNCHANGED non_sse_vars

\* A variant of the fault branches that does not mark the stream as closed
YieldFault_StaysOpen(message) ==
    /\ output' = Append(output, create_error_chunk(request_id, model_name, message))
    /\ origin' = Append(origin, 0)
    /\ final_chunk_sent' = final_chunk_sent
    /\ pc' = "idle"

\* What both fault branches do after building the message
YieldFault(message) ==
    /\ output' = Append(output, create_error_chunk(request_id, model_name, message))
    /\ origin' = Append(origin, 0)
    /\ final_chunk_sent' = TRUE
    /\ pc' = "idle"

\* byte_stream.next() = Some(Ok(bytes)), bytes not valid UTF-8
ReadInvalidUtf8 ==
    /\ pc = "read"
    /\ byte_stream # << >>
    /\ Head(byte_stream).kind = "bytes"
    /\ ~DecodeChunk(Head(byte_stream).bytes).ok
    /\ byte_stream' = Tail(byte_stream)
    /\ reads' = reads + 1
    /\ YieldFault(S_utf8_error \o Utf8Error_fmt(DecodeChunk(Head(byte_stream).bytes)))
    /\ UNCHANGED << decoder_buffer, accumulator, current_event_name,
                    current_data_buffer, model_name, request_id, consumed,
                    data_start, dispatched, silent_end, received >>
    /\ UNCHANGED non_sse_vars

\* byte_stream.next() = Some(Err(e))
ReadError ==
    /\ pc = "read"
    /\ byte_stream # << >>
    /\ Head(byte_stream).kind = "err"
    /\ byte_stream' = Tail(byte_stream)
    /\ reads' = reads + 1
    /\ YieldFault(S_read_error \o E_reqwest)
    /\ UNCHANGED << decoder_buffer, accumulator, current_event_name,
                    current_data_buffer, model_name, request_id, consumed,
                    data_start, dispatched, silent_end, received >>
    /\ UNCHANGED non_sse_vars

\* byte_stream.next() = None: residual buffer, then the final chunk or the
\* end of the stream
ReadEnd ==
    /\ pc = "read"
    /\ byte_stream = << >>
    /\ reads' = reads + 1
    /\ LET st == Residual(State)
       IN  /\ decoder_buffer' = st.decoder_buffer
           /\ current_event_name' = st.current_event_name
           /\ current_data_buffer' = st.current_data_buffer
           /\ consumed' = st.consumed
           /\ data_start' = st.data_start
           /\ dispatched' = st.dispatched
           /\ final_chunk_sent' = TRUE
           /\ IF ~st.accumulator.is_finished
              THEN /\ accumulator' = update_related_questions(
                                        [st.accumulator EXCEPT !.is_finished = TRUE])
                   /\ output' = Append(output,
                                    create_final_chunk(request_id, model_name, S_stop))
                   /\ origin' = Append(origin, 0)
                   /\ pc' = "idle"
                   /\ UNCHANGED silent_end
              ELSE /\ accumulator' = st.accumulator
                   /\ pc' = "done"
                   /\ silent_end' = TRUE
                   /\ UNCHANGED << output, origin >>
    /\ UNCHANGED << byte_stream, model_name, request_id, received >>
    /\ UNCHANGED non_sse_vars

SseNext ==
    \/ Pull
    \/ ProcessBufferedLines
    \/ ReadBytes
    \/ ReadInvalidUtf8
    \/ ReadError
    \/ ReadEnd

(***************************************************************************)
(* Signing bridge: the module behind the boundary                          *)
(***************************************************************************)
Callers == 1..NumCallers

\* (nonce, timestamp, device_id, query); the bytes of a &str are its UTF-8
SignInputs ==
    { << <<"n","1">>, <<"7">>, <<"d">>, <<"q","=","1">> >>,
      << <<"n","2">>, <<"7">>, <<"d">>, << >> >> }

\* The module's algorithm: a function of the four strings it is handed,
\* here one that signs an empty query with the empty string
SignatureOf(nonce, timestamp, device_id, query) ==
    IF query = << >> THEN << >>
    ELSE nonce \o <<"-">> \o timestamp \o <<"-">> \o device_id \o <<"-">> \o query

Slots == 1..HeapSlots

\* Memory::read(offset, len): the bytes, or an out-of-bounds error
MemoryRead(m, ptr, len) ==
    IF ptr \in Slots /\ len >= 0 /\ len <= Len(m[ptr])
    THEN [ok |-> TRUE, bytes |-> SubSeq(m[ptr], 1, len)]
    ELSE [ok |-> FALSE, bytes |-> << >>]

\* Memory::write(offset, bytes)
MemoryWrite(m, ptr, bytes) == [m EXCEPT ![ptr] = bytes]

\* The allocator export: a trap, 0 (out of memory), or the lowest free block
MallocResults(h) ==
    LET free == Slots \ {b.ptr : b \in h}
    IN  {[trap |-> TRUE, ptr |-> 0], [trap |-> FALSE, ptr |-> 0]}
        \cup (IF free = {} THEN {}
              ELSE {[trap |-> FALSE, ptr |-> CHOOSE p \in free : \A o \in free : p <= o]})

\* little-endian encoding of an i32 in four bytes (the module's side)
ToLeBytes(v) ==
    IF v >= 0
    THEN << v % 256, (v \div 256) % 256, (v \div 65536) % 256, v \div 16777216 >>
    ELSE LET w == v + 2147483647 + 1
         IN  << w % 256, (w \div 256) % 256, (w \div 65536) % 256,
                (w \div 16777216) + 128 >>

\* A variant that takes the four bytes most significant first
i32_from_le_bytes_BigEndian(b) ==
    IF b[1] >= 128
    THEN (b[4] + 256 * b[3] + 65536 * b[2] + 16777216 * (b[1] - 128)) - 2147483647 - 1
    ELSE b[4] + 256 * b[3] + 65536 * b[2] + 16777216 * b[1]

\* i32::from_le_bytes
i32_from_le_bytes(b) ==
    IF b[4] >= 128
    THEN (b[1] + 256 * b[2] + 65536 * b[3] + 16777216 * (b[4] - 128)) - 2147483647 - 1
    ELSE b[1] + 256 * b[2] + 65536 * b[3] + 16777216 * b[4]

\* What the signing export can do with its nine arguments: trap, or write a
\* descriptor.  "ok" allocates the result and writes the signature of the
\* four strings found at the pointers it was given; "null" hands back an
\* empty signature the other way, allocating nothing and writing the
\* descriptor (0, 0); the other outcomes are the faults of the module: a
\* pointer outside memory, a negative length, a result that is not UTF-8.
SignOutcomes == {"ok", "null", "trap", "bad_ptr", "neg_len", "bad_utf8"}

(***************************************************************************)
(* WasmSigner::sign                                                        *)
(***************************************************************************)
IdleCall ==
    [ pc |-> "idle", id |-> 0, inputs |-> << >>, ret_ptr_ptr |-> 0,
      bufs |-> << >>, result_ptr |-> 0, result_len |-> 0,
      result_string |-> << >>, frees |-> << >>, ret |-> None,
      steps |-> << >>, sign_args |-> << >> ]

\* The steps of one call, as the code lists them (1. to 6.), for the record
\* each call keeps of the steps it has taken
SignSteps ==
    << "malloc_descriptor", "write_nonce", "write_timestamp", "write_device_id",
       "write_query", "sign", "read_descriptor", "read_result", "free" >>

\* The step a call at c.pc takes next
StepOf(c) ==
    IF c.pc = "alloc_ret" THEN SignSteps[1]
    ELSE IF c.pc = "write" THEN SignSteps[Len(c.bufs) + 2]
    ELSE IF c.pc = "call_sign" THEN SignSteps[6]
    ELSE IF c.pc = "read_desc" THEN SignSteps[7]
    ELSE IF c.pc = "read_string" THEN SignSteps[8]
    ELSE SignSteps[9]

\* The nine i32 arguments of sign_func.call
SignArgs(c) ==
    << c.ret_ptr_ptr, c.bufs[1][1], c.bufs[1][2], c.bufs[2][1], c.bufs[2][2],
       c.bufs[3][1], c.bufs[3][2], c.bufs[4][1], c.bufs[4][2] >>

InProtocol == {"alloc_ret", "write", "call_sign", "read_desc", "read_string", "free"}

SignInit ==
    /\ lock = 0
    /\ poisoned = FALSE
    /\ heap = {}
    /\ mem = [p \in Slots |-> << >>]
    /\ call = [t \in Callers |-> IdleCall]
    /\ calls_started = 0

\* Err(..) returned by `?` or `return Err`: the guard is dropped
ReturnErr(t, why) ==
    /\ call' = [call EXCEPT ![t].pc = "idle",
                            ![t].steps = Append(@, StepOf(call[t])),
                            ![t].sign_args = IF call[t].pc = "call_sign"
                                             THEN SignArgs(call[t]) ELSE @,
                            ![t].ret = Some([ok |-> FALSE, value |-> << >>, why |-> why])]
    /\ lock' = 0

\* get_instance has handed out the signer: a &'static WasmSigner exists
SignerMade == WASM_SIGNER.state = "done" /\ WASM_SIGNER.value[1].ok

\* A thread calls sign
StartSign(t) ==
    /\ SignerMade
    /\ call[t].pc = "idle"
    /\ calls_started < MaxCalls
    /\ \E in \in SignInputs :
           call' = [call EXCEPT ![t] = [IdleCall EXCEPT !.pc = "lock",
                                                        !.id = calls_started + 1,
                                                        !.inputs = in]]
    /\ calls_started' = calls_started + 1
    /\ UNCHANGED << lock, poisoned, heap, mem >>
    /\ UNCHANGED non_sign_vars

\* A variant in which lock() never waits
LockAvailable_NoWait(t) == TRUE

\* Mutex::lock blocks while another thread holds the guard
LockAvailable(t) == lock = 0

\* self.inner.lock().expect(..): a poisoned mutex makes expect panic
Acquire(t) ==
    /\ call[t].pc = "lock"
    /\ LockAvailable(t)
    /\ IF poisoned
       THEN /\ call' = [call EXCEPT ![t].pc = "panicked"]
            /\ UNCHANGED lock
       ELSE /\ call' = [call EXCEPT ![t].pc = "alloc_ret"]
            /\ lock' = t
    /\ UNCHANGED << poisoned, heap, mem, calls_started >>
    /\ UNCHANGED non_sign_vars

\* 1. malloc_func.call((8, 4))
AllocDescriptor(t) ==
    /\ call[t].pc = "alloc_ret"
    /\ \E r \in MallocResults(heap) :
           IF r.trap
           THEN ReturnErr(t, "malloc_trap") /\ UNCHANGED heap
           ELSE IF r.ptr = 0
           THEN ReturnErr(t, "malloc_zero") /\ UNCHANGED heap
           ELSE /\ heap' = heap \cup {[ptr |-> r.ptr, size |-> 8, align |-> 4,
                                       owner |-> call[t].id]}
                /\ call' = [call EXCEPT ![t].pc = "write", ![t].ret_ptr_ptr = r.ptr,
                                        ![t].steps = Append(@, StepOf(call[t]))]
                /\ UNCHANGED lock
    /\ UNCHANGED << poisoned, mem, calls_started >>
    /\ UNCHANGED non_sign_vars

\* 2. write_string for the next of nonce, timestamp, device_id, query
WriteString(t) ==
    /\ call[t].pc = "write"
    /\ LET bytes == call[t].inputs[Len(call[t].bufs) + 1]
           len == Len(bytes)
       IN  \E r \in MallocResults(heap) :
               IF r.trap
               THEN ReturnErr(t, "malloc_trap") /\ UNCHANGED << heap, mem >>
               ELSE IF r.ptr = 0
               THEN ReturnErr(t, "malloc_zero") /\ UNCHANGED << heap, mem >>
               ELSE /\ heap' = heap \cup {[ptr |-> r.ptr, size |-> len, align |-> 1,
                                           owner |-> call[t].id]}
                    /\ mem' = MemoryWrite(mem, r.ptr, bytes)
                    /\ call' = [call EXCEPT
                           ![t].bufs = Append(@, << r.ptr, len >>),
                           ![t].steps = Append(@, StepOf(call[t])),
                           ![t].pc = IF Len(call[t].bufs) = 3 THEN "call_sign" ELSE "write"]
                    /\ UNCHANGED lock
    /\ UNCHANGED << poisoned, calls_started >>
    /\ UNCHANGED non_sign_vars

\* 3. sign_func.call((ret_ptr_ptr, nonce_ptr, nonce_len, ..., query_ptr, query_len))
CallSign(t) ==
    /\ call[t].pc = "call_sign"
    /\ LET c == call[t]
           arg(i) == MemoryRead(mem, c.bufs[i][1], c.bufs[i][2]).bytes
           sig == SignatureOf(arg(1), arg(2), arg(3), arg(4))
           free == Slots \ {b.ptr : b \in heap}
       IN  \E o \in SignOutcomes :
               IF o = "trap"
               THEN ReturnErr(t, "sign_trap") /\ UNCHANGED << heap, mem >>
               ELSE IF o = "bad_ptr"
               THEN /\ mem' = MemoryWrite(mem, c.ret_ptr_ptr,
                                  ToLeBytes(HeapSlots + 1) \o ToLeBytes(Len(sig)))
                    /\ call' = [call EXCEPT ![t].pc = "read_desc",
                                            ![t].steps = Append(@, StepOf(c)),
                                            ![t].sign_args = SignArgs(c)]
                    /\ UNCHANGED << heap, lock >>
               ELSE IF o = "neg_len"
               THEN /\ mem' = MemoryWrite(mem, c.ret_ptr_ptr,
                                  ToLeBytes(0) \o ToLeBytes(-1))
                    /\ call' = [call EXCEPT ![t].pc = "read_desc",
                                            ![t].steps = Append(@, StepOf(c)),
                                            ![t].sign_args = SignArgs(c)]
                    /\ UNCHANGED << heap, lock >>
               ELSE IF o = "null"
               THEN /\ sig = << >>
                    /\ mem' = MemoryWrite(mem, c.ret_ptr_ptr,
                                  ToLeBytes(0) \o ToLeBytes(0))
                    /\ call' = [call EXCEPT ![t].pc = "read_desc",
                                            ![t].steps = Append(@, StepOf(c)),
                                            ![t].sign_args = SignArgs(c)]
                    /\ UNCHANGED << heap, lock >>
               ELSE /\ free # {}
                    /\ LET rp == CHOOSE p \in free : \A q \in free : p <= q
                           out == IF o = "bad_utf8" THEN <<"xA9">> ELSE sig
                       IN  /\ heap' = heap \cup {[ptr |-> rp, size |-> Len(out),
                                                  align |-> 1, owner |-> c.id]}
                           /\ mem' = MemoryWrite(
                                         MemoryWrite(mem, rp, out), c.ret_ptr_ptr,
                                         ToLeBytes(rp) \o ToLeBytes(Len(out)))
                    /\ call' = [call EXCEPT ![t].pc = "read_desc",
                                            ![t].steps = Append(@, StepOf(c)),
                                            ![t].sign_args = SignArgs(c)]
                    /\ UNCHANGED lock
    /\ UNCHANGED << poisoned, calls_started >>
    /\ UNCHANGED non_sign_vars

\* 4. memory.read(ret_ptr_ptr, 8) and the two from_le_bytes
ReadDescriptor(t) ==
    /\ call[t].pc = "read_desc"
    /\ LET r == MemoryRead(mem, call[t].ret_ptr_ptr, 8)
       IN  IF ~r.ok
           THEN ReturnErr(t, "read_descriptor")
           ELSE /\ call' = [call EXCEPT
                       ![t].result_ptr = i32_from_le_bytes(SubSeq(r.bytes, 1, 4)),
                       ![t].result_len = i32_from_le_bytes(SubSeq(r.bytes, 5, 8)),
                       ![t].steps = Append(@, StepOf(call[t])),
                       ![t].pc = "read_string"]
                /\ UNCHANGED lock
    /\ UNCHANGED << poisoned, heap, mem, calls_started >>
    /\ UNCHANGED non_sign_vars

\* the read_string closure: "ok", "err" or "panic" (vec![0u8; len as usize]
\* with a negative len is a capacity overflow)
read_string(m, ptr, len) ==
    IF len = 0 THEN [kind |-> "ok", value |-> << >>]
    ELSE IF len < 0 THEN [kind |-> "panic", value |-> << >>]
    ELSE LET r == MemoryRead(m, ptr, len)
         IN  IF ~r.ok THEN [kind |-> "err", value |-> << >>]
             ELSE IF ~from_utf8(r.bytes).ok THEN [kind |-> "err", value |-> << >>]
             ELSE [kind |-> "ok", value |-> from_utf8(r.bytes).text]

\* 5. result_string = read_string(store, result_ptr, result_len)?
ReadString(t) ==
    /\ call[t].pc = "read_string"
    /\ LET r == read_string(mem, call[t].result_ptr, call[t].result_len)
       IN  IF r.kind = "panic"
           THEN /\ call' = [call EXCEPT ![t].pc = "panicked",
                                        ![t].steps = Append(@, StepOf(call[t]))]
                /\ lock' = 0
                /\ poisoned' = TRUE
           ELSE IF r.kind = "err"
           THEN ReturnErr(t, "read_result") /\ UNCHANGED poisoned
           ELSE /\ call' = [call EXCEPT ![t].result_string = r.value, ![t].pc = "free",
                                        ![t].steps = Append(@, StepOf(call[t]))]
                /\ UNCHANGED << lock, poisoned >>
    /\ UNCHANGED << heap, mem, calls_started >>
    /\ UNCHANGED non_sign_vars

\* A variant that hands the result back whatever its pointer is
FreeList_ResultAlways(c) ==
    << << c.bufs[1][1], c.bufs[1][2], 1 >>,
       << c.bufs[2][1], c.bufs[2][2], 1 >>,
       << c.bufs[3][1], c.bufs[3][2], 1 >>,
       << c.bufs[4][1], c.bufs[4][2], 1 >>,
       << c.ret_ptr_ptr, 8, 4 >>,
       << c.result_ptr, c.result_len, 1 >> >>

\* The free_func calls of step 6, in the order of the code
FreeList(c) ==
    << << c.bufs[1][1], c.bufs[1][2], 1 >>,
       << c.bufs[2][1], c.bufs[2][2], 1 >>,
       << c.bufs[3][1], c.bufs[3][2], 1 >>,
       << c.bufs[4][1], c.bufs[4][2], 1 >>,
       << c.ret_ptr_ptr, 8, 4 >> >>
    \o (IF c.result_ptr # 0 THEN << << c.result_ptr, c.result_len, 1 >> >> ELSE << >>)

\* 6. the deallocations and Ok(result_string); the k-th free_func call
\* traps (k = 0: none does) and `?` returns at once
FreeAll(t) ==
    /\ call[t].pc = "free"
    /\ LET fl == FreeList(call[t])
       IN  \E k \in 0..Len(fl) :
               LET done == IF k = 0 THEN fl ELSE SubSeq(fl, 1, k - 1)
               IN  /\ heap' = {b \in heap : \A i \in 1..Len(done) : b.ptr # done[i][1]}
                   /\ call' = [call EXCEPT
                          ![t].pc = "idle",
                          ![t].frees = done,
                          ![t].steps = Append(@, StepOf(call[t])),
                          ![t].ret = IF k = 0
                                     THEN Some([ok |-> TRUE,
                                                value |-> call[t].result_string,
                                                why |-> "ok"])
                                     ELSE Some([ok |-> FALSE, value |-> << >>,
                                                why |-> "free_trap"])]
                   /\ lock' = 0
    /\ UNCHANGED << poisoned, mem, calls_started >>
    /\ UNCHANGED non_sign_vars

SignNext ==
    \E t \in Callers :
        \/ StartSign(t)
        \/ Acquire(t)
        \/ AllocDescriptor(t)
        \/ WriteString(t)
        \/ CallSign(t)
        \/ ReadDescriptor(t)
        \/ ReadString(t)
        \/ FreeAll(t)

(***************************************************************************)
(* process_single_dev_event called directly, as the unit tests call it     *)
(***************************************************************************)
\* {"text": "a"} and {"text": " b"}
J_text_a == <<"{","\"","t","e","x","t","\"",":"," ","\"","a","\"","}">>
J_text_b == <<"{","\"","t","e","x","t","\"",":"," ","\""," ","b","\"","}">>
\* a name no arm of the match knows
S_unknown_event == <<"z","z">>

\* The (event_name, data) arguments of the calls
EventInputs ==
    { [name |-> S_content, data |-> J_text_a],
      [name |-> S_message, data |-> J_text_b],
      [name |-> S_c, data |-> J_text_a],
      [name |-> S_content, data |-> <<"a">>],
      [name |-> S_rlq, data |-> <<"c">>],
      [name |-> S_q, data |-> <<"b">>],
      [name |-> S_error, data |-> <<"x">>],
      [name |-> S_unknown_event, data |-> <<"a">>],
      [name |-> S_finish, data |-> << >>],
      [name |-> S_finish, data |-> <<"a">>],
      [name |-> S_action, data |-> J_action1],
      [name |-> S_action, data |-> <<"x">>],
      [name |-> S_r, data |-> <<"a">>],
      [name |-> S_threadId, data |-> <<"t">>],
      [name |-> S_message, data |-> << >>],
      [name |-> S_sources, data |-> J_sources1],
      [name |-> S_sources, data |-> J_sources0],
      [name |-> S_repoSources, data |-> J_repo1],
      [name |-> S_repoSources, data |-> J_sources0],
      [name |-> S_action, data |-> J_action_extra],
      [name |-> S_action, data |-> J_action_unclosed],
      [name |-> S_sources, data |-> J_sources_titled],
      [name |-> S_sources, data |-> J_repo1],
      [name |-> S_repoSources, data |-> J_repo_path],
      [name |-> S_repoSources, data |-> J_sources1],
      [name |-> S_sources, data |-> J_sources_range],
      [name |-> S_repoSources, data |-> J_repo_control],
      [name |-> S_action, data |-> J_action_control],
      [name |-> S_sources, data |-> J_sources_nbsp],
      [name |-> S_rlq, data |-> <<"\f"," ","c","U+00A0","\n","U+000B","d","U+0085">>],
      [name |-> S_q, data |-> <<"U+2003","\t">>] }

EventInit ==
    /\ ev_acc = SseAccumulator_default
    /\ ev_log = << >>
    /\ ev_chunk = None

\* One call: the accumulator is updated in place, the chunk is returned
HandleEvent ==
    /\ Len(ev_log) < MaxEvents
    /\ \E e \in EventInputs :
           LET r == process_single_dev_event(ev_acc, e.name, e.data,
                                             request_id, model_name)
           IN  /\ ev_acc' = r.acc
               /\ ev_chunk' = r.chunk
               /\ ev_log' = Append(ev_log, e)
    /\ UNCHANGED non_ev_vars

EventNext == HandleEvent

(***************************************************************************)
(* The lazily initialized signer: WASM_SIGNER and get_instance             *)
(***************************************************************************)
\* What WasmSignerInner::new can return: Ok, or the error of one of its six
\* `?` (lines 46-71).  The embedded binary decides which; it is not part of
\* the sources, so every outcome is open
NewOutcomes ==
    {"ok", "load_module", "instantiate", "no_memory", "no_sign", "no_malloc", "no_free"}

\* The Result the n-th run of WasmSigner::new returns on outcome o
NewResult(o, n) ==
    IF o = "ok"
    THEN [ok |-> TRUE, instance |-> n, error |-> "none"]
    ELSE [ok |-> FALSE, instance |-> 0, error |-> o]

LoaderInit ==
    /\ WASM_SIGNER = [state |-> "uninit", value |-> None]
    /\ loads = 0
    /\ gi = [t \in Callers |-> "idle"]
    /\ gi_started = 0
    /\ gi_results = << >>

\* The cell after the one get_instance call of a constructor (caller 0)
\* has run new() with one of the outcomes and returned
LoaderForced(outcomes) ==
    /\ \E o \in outcomes :
           /\ WASM_SIGNER = [state |-> "done", value |-> Some(NewResult(o, 1))]
           /\ gi_results = << [caller |-> 0] @@ NewResult(o, 1) >>
    /\ loads = 1
    /\ gi = [t \in Callers |-> "idle"]
    /\ gi_started = 1

\* A caller enters get_instance
StartGetInstance(t) ==
    /\ gi[t] = "idle"
    /\ gi_started < MaxCalls
    /\ gi_started' = gi_started + 1
    /\ gi' = [gi EXCEPT ![t] = "force"]
    /\ UNCHANGED << WASM_SIGNER, loads, gi_results >>
    /\ UNCHANGED non_loader_vars

\* A variant of the cell that runs the initializer again after an error
NeedsInit_RetryOnError ==
    \/ WASM_SIGNER.state = "uninit"
    \/ WASM_SIGNER.state = "done" /\ ~WASM_SIGNER.value[1].ok

\* Lazy: the initializer runs for the first caller that finds the cell empty
NeedsInit == WASM_SIGNER.state = "uninit"

\* WASM_SIGNER.as_ref() on an empty cell: this caller runs the initializer
ForceInit(t) ==
    /\ gi[t] = "force"
    /\ NeedsInit
    /\ WASM_SIGNER' = [state |-> "running", value |-> None]
    /\ gi' = [gi EXCEPT ![t] = "new"]
    /\ UNCHANGED << loads, gi_started, gi_results >>
    /\ UNCHANGED non_loader_vars

\* WasmSigner::new() returns; the cell keeps the Result for good.  An
\* instance is named by the run of new() that made it
RunNew(t) ==
    /\ gi[t] = "new"
    /\ loads' = loads + 1
    /\ \E o \in NewOutcomes :
           WASM_SIGNER' = [state |-> "done", value |-> Some(NewResult(o, loads + 1))]
    /\ gi' = [gi EXCEPT ![t] = "match"]
    /\ UNCHANGED << gi_started, gi_results >>
    /\ UNCHANGED non_loader_vars

\* WASM_SIGNER.as_ref() on a filled cell; a caller that finds the
\* initializer running waits for it
ForceDone(t) ==
    /\ gi[t] = "force"
    /\ ~NeedsInit
    /\ WASM_SIGNER.state = "done"
    /\ gi' = [gi EXCEPT ![t] = "match"]
    /\ UNCHANGED << WASM_SIGNER, loads, gi_started, gi_results >>
    /\ UNCHANGED non_loader_vars

\* The match of get_instance: Ok(signer) is the reference to the stored
\* value, Err is a new error carrying the text of the stored one
ReturnInstance(t) ==
    /\ gi[t] = "match"
    /\ gi_results' = Append(gi_results, [caller |-> t] @@ WASM_SIGNER.value[1])
    /\ gi' = [gi EXCEPT ![t] = "idle"]
    /\ UNCHANGED << WASM_SIGNER, loads, gi_started >>
    /\ UNCHANGED non_loader_vars

LoaderNext ==
    \E t \in Callers :
        \/ StartGetInstance(t)
        \/ ForceInit(t)
        \/ RunNew(t)
        \/ ForceDone(t)
        \/ ReturnInstance(t)

(***************************************************************************)
(* The provider: model discovery and its caches                            *)
(***************************************************************************)
Tasks == Callers

\* ModelInfo, without the fields no decision reads (display_name, icon)
ModelInfo(name, type, left, new) ==
    [model_name |-> name, model_type |-> type, usage_left |-> left, is_new |-> new]

\* What the models endpoint can answer: the same two models, the premium
\* one with or without usage left
ModelsWithUsage == << ModelInfo("m", "base", 0, FALSE), ModelInfo("p", "premium", 1, TRUE) >>
ModelsUsedUp == << ModelInfo("m", "base", 0, FALSE), ModelInfo("p", "premium", 0, TRUE) >>

ApiLists == {ModelsWithUsage, ModelsUsedUp}

\* The model names the tasks ask about
ModelNames == {"m", "p"}

\* The filters a provider is configured with
NoCriteria ==
    [include_types |-> None, exclude_types |-> None, min_usage_left |-> None,
     only_new |-> None]

ModelFilters ==
    { None,
      Some([NoCriteria EXCEPT !.include_types = Some({"base", "premium"}),
                              !.exclude_types = Some({"freeTrial"}),
                              !.min_usage_left = Some(1),
                              !.only_new = Some(TRUE)]) }

apply_model_filter(filter_option, models) ==
    IF filter_option = None THEN models
    ELSE LET filter == filter_option[1]
         IN  SelectSeq(models, LAMBDA model :
                 /\ (filter.include_types # None =>
                         model.model_type \in filter.include_types[1])
                 /\ (filter.exclude_types # None =>
                         model.model_type \notin filter.exclude_types[1])
                 /\ (filter.min_usage_left # None =>
                         model.usage_left >= filter.min_usage_left[1])
                 /\ (filter.only_new # None =>
                         ~(filter.only_new[1] /\ ~model.is_new)))

\* Result values: Ok(value) and Err
Ok(v) == [ok |-> TRUE, value |-> v]
Err == [ok |-> FALSE, value |-> << >>]
\* The InferenceClient error of infer with status_code Some(BAD_REQUEST)
Err400 == [ok |-> FALSE, value |-> << >>, status_code |-> 400]
\* The body of a successful backend response
S_response_text == <<"o","k">>

\* A task: its position, the operation it runs, the argument of
\* validate_model, raw_models, the list validate_model got, what the
\* operation returned, the verdict validate_model returned to infer, the
\* number of requests infer sent; observation only: for a discover_models
\* call, the value of first_success when it started (expect); the number of
\* the last clear_model_cache call that had returned when the call started
\* (need) and the clear count under which the list in hand was fetched
\* (tag), both kept while the call runs and only where the count is on
IdleTask ==
    [pc |-> "idle", op |-> "none", name |-> "", raw |-> << >>,
     models |-> << >>, ret |-> None, expect |-> None,
     valid |-> None, sent |-> 0, need |-> 0, tag |-> 0]

\* HashMap::new()
EmptyMap == [n \in {} |-> FALSE]

\* `counting` switches the count of the clear_model_cache calls on
\* and `endpoints` are the models endpoints the provider can be facing
ProviderFields(filters, counting, names, endpoints) ==
    /\ model_filter \in filters
    /\ effective_model_name \in names
    /\ api_lists \in endpoints
    /\ available_models = None
    /\ validated_models = EmptyMap
    /\ am_writer = 0
    /\ pv = [t \in Tasks |-> IdleTask]
    /\ pv_ops = 0
    /\ first_success = None
    /\ fetch_ok = FALSE
    /\ pv_clock = [on |-> counting, epoch |-> 0, cleared |-> 0, am_tag |-> 0,
                   vm_tag |-> [n \in {} |-> 0]]

\* RustProxyProvider::new calls DevApiClient::with_config, which builds the
\* HTTP client and then calls get_instance, the first use of WASM_SIGNER.
\* Where the client cannot be built with_config returns before
\* get_instance and the cell stays unused; where new() of the signer fails
\* the cell holds its error.  In both cases with_config and
\* RustProxyProvider::new return Err and no provider is made
ProviderInitOn(filters, counting, names, endpoints) ==
    /\ ProviderFields(filters, counting, names, endpoints)
    /\ (LoaderForced(NewOutcomes) \/ LoaderInit)

\* The constructor's call of get_instance (caller 0) has returned
ConstructorCalledGetInstance ==
    gi_results # << >> /\ gi_results[1].caller = 0

\* Ok(Self {..}) was returned: the provider exists
ProviderMade == ConstructorCalledGetInstance /\ SignerMade

\* The message of the Err RustProxyProvider::new returns when get_instance
\* failed: the outermost context of the error of with_config, after the
\* prefix of new
S_failed_to_create_client ==
    <<"F","a","i","l","e","d"," ","t","o"," ","c","r","e","a","t","e"," ",
      "D","e","v","A","p","i","C","l","i","e","n","t",":"," ","F","a","i",
      "l","e","d"," ","t","o"," ","g","e","t"," ","W","a","s","m","S","i",
      "g","n","e","r"," ","i","n","s","t","a","n","c","e">>

\* The message when the HTTP client could not be built
S_failed_to_build_client ==
    <<"F","a","i","l","e","d"," ","t","o"," ","c","r","e","a","t","e"," ",
      "D","e","v","A","p","i","C","l","i","e","n","t",":"," ","F","a","i",
      "l","e","d"," ","t","o"," ","b","u","i","l","d"," ","r","e","q","w",
      "e","s","t"," ","c","l","i","e","n","t">>

\* What RustProxyProvider::new returned
RustProxyProvider_new ==
    IF ProviderMade THEN [ok |-> TRUE, message |-> << >>]
    ELSE IF ConstructorCalledGetInstance
    THEN [ok |-> FALSE, message |-> S_failed_to_create_client]
    ELSE [ok |-> FALSE, message |-> S_failed_to_build_client]

\* The provider facing the endpoint of the two known models
ProviderInitWith(filters, counting, names) ==
    ProviderInitOn(filters, counting, names, {ApiLists})

\* Before any provider is constructed: the fields a provider will start
\* with; no call can start
ProviderInit == ProviderFields({None}, FALSE, {"p"}, {ApiLists})

\* A task calls discover_models
StartDiscover(t) ==
    /\ ProviderMade
    /\ pv[t].pc = "idle"
    /\ pv_ops < MaxOps
    /\ pv_ops' = pv_ops + 1
    /\ pv' = [pv EXCEPT ![t] = [IdleTask EXCEPT !.pc = "d_check", !.op = "discover",
                                                !.expect = first_success,
                                                !.need = pv_clock.cleared]]
    /\ UNCHANGED << model_filter, effective_model_name, api_lists, available_models, validated_models, am_writer,
                    first_success, fetch_ok, pv_clock >>
    /\ UNCHANGED non_prov_vars

\* A task calls validate_model(model_name)
StartValidate(t) ==
    /\ ProviderMade
    /\ pv[t].pc = "idle"
    /\ pv_ops < MaxOps
    /\ pv_ops' = pv_ops + 1
    /\ \E n \in ModelNames :
           pv' = [pv EXCEPT ![t] = [IdleTask EXCEPT !.pc = "v_check", !.op = "validate",
                                                    !.name = n,
                                                    !.need = pv_clock.cleared]]
    /\ UNCHANGED << model_filter, effective_model_name, api_lists, available_models, validated_models, am_writer,
                    first_success, fetch_ok, pv_clock >>
    /\ UNCHANGED non_prov_vars

\* A task calls infer; the first thing infer does is
\* validate_model(effective_model_name) (line 924)
StartInfer(t) ==
    /\ ProviderMade
    /\ pv[t].pc = "idle"
    /\ pv_ops < MaxOps
    /\ pv_ops' = pv_ops + 1
    /\ pv' = [pv EXCEPT ![t] = [IdleTask EXCEPT !.pc = "v_check", !.op = "infer",
                                                !.name = effective_model_name,
                                                !.need = pv_clock.cleared]]
    /\ UNCHANGED << model_filter, effective_model_name, api_lists, available_models, validated_models, am_writer,
                    first_success, fetch_ok, pv_clock >>
    /\ UNCHANGED non_prov_vars

\* What the tasks note when task t enters clear_model_cache: the call is
\* counted, and no running call counts as started between a success and a
\* clear
EnterClear(t, op) ==
    /\ pv' = [u \in Tasks |->
                 IF u = t
                 THEN [(IF op = "clear" THEN IdleTask ELSE pv[t]) EXCEPT
                          !.pc = "c_models", !.op = op,
                          !.tag = IF pv_clock.on THEN pv_clock.epoch + 1 ELSE 0]
                 ELSE [pv[u] EXCEPT !.expect = None]]
    /\ first_success' = None
    /\ pv_clock' = [pv_clock EXCEPT !.epoch = IF pv_clock.on THEN @ + 1 ELSE @]

\* A task calls clear_model_cache
StartClear(t) ==
    /\ ProviderMade
    /\ pv[t].pc = "idle"
    /\ pv_ops < MaxOps
    /\ pv_ops' = pv_ops + 1
    /\ EnterClear(t, "clear")
    /\ UNCHANGED << model_filter, effective_model_name, api_lists, available_models, validated_models, am_writer,
                    fetch_ok >>
    /\ UNCHANGED non_prov_vars

\* `available_models.iter().any(|model| model.model_name == model_name &&
\* (model.model_type == "base" || model.usage_left > 0))`
model_is_valid(models, name) ==
    \E i \in DOMAIN models :
        /\ models[i].model_name = name
        /\ (models[i].model_type = "base" \/ models[i].usage_left > 0)

\* validate_model returns Ok(is_valid): to the task, or to infer
ValidateReturns(c, is_valid) ==
    IF c.op = "infer"
    THEN [c EXCEPT !.pc = "i_send", !.valid = Some(is_valid), !.models = << >>,
                   !.need = 0, !.tag = 0]
    ELSE [c EXCEPT !.pc = "idle", !.ret = Some(Ok(is_valid)), !.models = << >>,
                   !.need = 0, !.tag = 0]

\* validate_model, lines 288-293: a cached verdict is returned; otherwise
\* discover_models is called (line 296)
ValidateCheck(t) ==
    /\ pv[t].pc = "v_check"
    /\ pv' = IF pv[t].name \in DOMAIN validated_models
             THEN [pv EXCEPT ![t] = ValidateReturns(@, validated_models[pv[t].name])]
             ELSE [pv EXCEPT ![t].pc = "d_check", ![t].expect = first_success]
    /\ UNCHANGED << model_filter, effective_model_name, api_lists, available_models, validated_models, am_writer,
                    pv_ops, first_success, fetch_ok, pv_clock >>
    /\ UNCHANGED non_prov_vars

\* discover_models returns r to its caller: to the task, or to validate_model
\* or check_model_availability, whose `?` passes an error on (as does the
\* `?` of infer).  A success is
\* noted when it is the first one and no clear_model_cache call is under way
DiscoverReturns(t, r, tag) ==
    /\ pv' = [pv EXCEPT ![t] =
                 IF @.op \in {"validate", "infer"} /\ r.ok
                 THEN [@ EXCEPT !.pc = "v_store", !.models = r.value, !.raw = << >>,
                                !.tag = tag]
                 ELSE IF @.op = "availability" /\ r.ok
                 THEN [@ EXCEPT !.pc = "a_match", !.models = r.value, !.raw = << >>,
                                !.tag = tag]
                 ELSE [@ EXCEPT !.pc = "idle", !.ret = Some(r), !.raw = << >>,
                                !.need = 0, !.tag = 0]]
    /\ first_success' =
           IF r.ok /\ first_success = None
                   /\ \A u \in Tasks : pv[u].pc \notin {"c_models", "c_validated"}
           THEN Some(r.value) ELSE first_success

\* discover_models, lines 222-227: the read guard, taken when no writer
\* holds the lock and dropped at the end of the block
DiscoverCheck(t) ==
    /\ pv[t].pc = "d_check"
    /\ am_writer = 0
    /\ IF available_models # None
       THEN DiscoverReturns(t, Ok(available_models[1]), pv_clock.am_tag)
       ELSE /\ pv' = [pv EXCEPT ![t].pc = "d_fetch"]
            /\ UNCHANGED first_success
    /\ UNCHANGED << model_filter, effective_model_name, api_lists, available_models, validated_models, am_writer,
                    pv_ops, fetch_ok, pv_clock >>
    /\ UNCHANGED non_prov_vars

\* get_models up to its first await, send().await (dev_client.rs 310-315):
\* the request fails, or the status line arrives; a status that is not a
\* success ends the call (317-322), a success leaves the body to be awaited
DiscoverFetch(t) ==
    /\ pv[t].pc = "d_fetch"
    /\ \/ /\ pv' = [pv EXCEPT ![t].pc = "d_body"]
          /\ UNCHANGED first_success
       \/ DiscoverReturns(t, Err, 0)
    /\ UNCHANGED << model_filter, effective_model_name, api_lists, available_models, validated_models, am_writer,
                    pv_ops, fetch_ok, pv_clock >>
    /\ UNCHANGED non_prov_vars

\* The second await of get_models, response.text().await (325-328), and the
\* parse after it (332-333): the body is one of the lists of the endpoint,
\* or reading or parsing it fails
DiscoverBody(t) ==
    /\ pv[t].pc = "d_body"
    /\ \/ \E l \in api_lists :
             /\ pv' = [pv EXCEPT ![t].pc = "d_store", ![t].raw = l,
                                  ![t].tag = pv_clock.epoch]
             /\ fetch_ok' = TRUE
             /\ UNCHANGED first_success
       \/ /\ DiscoverReturns(t, Err, 0)
          /\ UNCHANGED fetch_ok
    /\ UNCHANGED << model_filter, effective_model_name, api_lists, available_models, validated_models, am_writer,
                    pv_ops, pv_clock >>
    /\ UNCHANGED non_prov_vars

\* lines 242-250: filter, take the write guard, store, return
DiscoverStore(t) ==
    /\ pv[t].pc = "d_store"
    /\ am_writer = 0
    /\ LET filtered_models == apply_model_filter(model_filter, pv[t].raw)
       IN  /\ available_models' = Some(filtered_models)
           /\ DiscoverReturns(t, Ok(filtered_models), pv[t].tag)
    /\ pv_clock' = [pv_clock EXCEPT !.am_tag = pv[t].tag]
    /\ UNCHANGED << model_filter, effective_model_name, api_lists, validated_models, am_writer, pv_ops, fetch_ok >>
    /\ UNCHANGED non_prov_vars

\* validate_model, lines 299-310
ValidateStore(t) ==
    /\ pv[t].pc = "v_store"
    /\ LET verdict == model_is_valid(pv[t].models, pv[t].name)
       IN  /\ validated_models' =
                  [n \in DOMAIN validated_models \cup {pv[t].name} |->
                       IF n = pv[t].name THEN verdict ELSE validated_models[n]]
           /\ pv' = [pv EXCEPT ![t] = ValidateReturns(@, verdict)]
    /\ pv_clock' = [pv_clock EXCEPT !.vm_tag =
                       [n \in DOMAIN validated_models \cup {pv[t].name} |->
                            IF n = pv[t].name THEN pv[t].tag ELSE pv_clock.vm_tag[n]]]
    /\ UNCHANGED << model_filter, effective_model_name, api_lists, available_models, am_writer, pv_ops,
                    first_success, fetch_ok >>
    /\ UNCHANGED non_prov_vars

\* A variant of the test of line 924 that lets every verdict pass
MaySend_Always(verdict) == TRUE

\* infer, line 924: `if !self.validate_model(..).await?` is not taken
MaySend(verdict) == verdict = Some(TRUE)

\* What build_request_params passes to WasmSigner::sign
\* (dev_client.rs:162-167): nonce, timestamp, device_id, content
InferSignInputs == {<< <<"n","1">>, <<"7">>, <<"d">>, <<"q","=","1">> >>}

\* infer, lines 924-932: the 400 error when the verdict is false; otherwise
\* send_request is called (line 938), which calls build_request_params,
\* which calls wasm_signer.sign (dev_client.rs:228, 162)
InferSend(t) ==
    /\ pv[t].pc = "i_send"
    /\ IF ~MaySend(pv[t].valid)
       THEN /\ pv' = [pv EXCEPT ![t].pc = "idle", ![t].ret = Some(Err400)]
            /\ UNCHANGED sign_vars
       ELSE /\ pv' = [pv EXCEPT ![t].pc = "i_sign"]
            /\ \E in \in InferSignInputs :
                   call' = [call EXCEPT ![t] = [IdleCall EXCEPT !.pc = "lock",
                                                                !.id = calls_started + 1,
                                                                !.inputs = in]]
            /\ calls_started' = calls_started + 1
            /\ UNCHANGED << lock, poisoned, heap, mem >>
    /\ UNCHANGED << model_filter, effective_model_name, api_lists, available_models,
                    validated_models, am_writer, pv_ops, first_success, fetch_ok,
                    pv_clock >>
    /\ UNCHANGED non_infer_vars

\* send_request once sign has returned (dev_client.rs:228-243): an error
\* of sign is passed on by the two `?` and by the `?` of infer, and no
\* request is sent; otherwise the request is built and client.execute
\* sends it.  A panic of sign unwinds through infer, which never returns
InferPost(t) ==
    /\ pv[t].pc = "i_sign"
    /\ call[t].pc = "idle"
    /\ call[t].ret # None
    /\ pv' = IF call[t].ret[1].ok
             THEN [pv EXCEPT ![t].pc = "i_exec", ![t].sent = @ + 1]
             ELSE [pv EXCEPT ![t].pc = "idle", ![t].ret = Some(Err)]
    /\ call' = [call EXCEPT ![t] = IdleCall]
    /\ UNCHANGED << lock, poisoned, heap, mem, calls_started >>
    /\ UNCHANGED << model_filter, effective_model_name, api_lists, available_models,
                    validated_models, am_writer, pv_ops, first_success, fetch_ok,
                    pv_clock >>
    /\ UNCHANGED non_infer_vars

\* client.execute(request).await returns (dev_client.rs:243-258): the
\* request failed, or the status is not a success and the error body is
\* read, or the response is handed to infer
InferResponse(t) ==
    /\ pv[t].pc = "i_exec"
    /\ \/ pv' = [pv EXCEPT ![t].pc = "idle", ![t].ret = Some(Err)]
       \/ pv' = [pv EXCEPT ![t].pc = "i_errbody"]
       \/ pv' = [pv EXCEPT ![t].pc = "i_text"]
    /\ UNCHANGED << model_filter, effective_model_name, api_lists, available_models,
                    validated_models, am_writer, pv_ops, first_success, fetch_ok,
                    pv_clock >>
    /\ UNCHANGED non_prov_vars

\* response.text().await on a non-success status (dev_client.rs:250-254):
\* whatever it gives, send_request returns Err and so does infer
InferErrorBody(t) ==
    /\ pv[t].pc = "i_errbody"
    /\ pv' = [pv EXCEPT ![t].pc = "idle", ![t].ret = Some(Err)]
    /\ UNCHANGED << model_filter, effective_model_name, api_lists, available_models,
                    validated_models, am_writer, pv_ops, first_success, fetch_ok,
                    pv_clock >>
    /\ UNCHANGED non_prov_vars

\* infer, lines 949-964: response.text() fails, or update_model_usage is
\* called, which calls clear_model_cache (line 679)
InferReadText(t) ==
    /\ pv[t].pc = "i_text"
    /\ \/ /\ pv' = [pv EXCEPT ![t].pc = "idle", ![t].ret = Some(Err)]
          /\ UNCHANGED << first_success, pv_clock >>
       \/ EnterClear(t, "infer")
    /\ UNCHANGED << model_filter, effective_model_name, api_lists, available_models, validated_models, am_writer,
                    pv_ops, fetch_ok >>
    /\ UNCHANGED non_prov_vars

\* clear_model_cache, lines 352-353: the write guard of available_models is
\* taken and kept
ClearModels(t) ==
    /\ pv[t].pc = "c_models"
    /\ am_writer = 0
    /\ am_writer' = t
    /\ available_models' = None
    /\ pv' = [pv EXCEPT ![t].pc = "c_validated"]
    /\ pv_clock' = [pv_clock EXCEPT !.am_tag = 0]
    /\ UNCHANGED << model_filter, effective_model_name, api_lists, validated_models, pv_ops, first_success, fetch_ok >>
    /\ UNCHANGED non_prov_vars

\* lines 355-357: the validation cache is cleared and both guards dropped;
\* in infer, update_model_usage returns Ok(()) and infer the response
\* (lines 964-985)
ClearValidated(t) ==
    /\ pv[t].pc = "c_validated"
    /\ validated_models' = EmptyMap
    /\ am_writer' = 0
    /\ pv' = [pv EXCEPT ![t].pc = "idle", ![t].tag = 0,
                        ![t].ret = IF pv[t].op = "infer"
                                   THEN Some(Ok(S_response_text))
                                   ELSE Some(Ok(<< >>))]
    /\ pv_clock' = [pv_clock EXCEPT
                       !.vm_tag = [n \in {} |-> 0],
                       !.cleared = IF pv[t].tag > @ THEN pv[t].tag ELSE @]
    /\ UNCHANGED << model_filter, effective_model_name, api_lists, available_models, pv_ops, first_success, fetch_ok >>
    /\ UNCHANGED non_prov_vars

ProviderNext ==
    \E t \in Tasks :
        \/ StartDiscover(t)
        \/ StartValidate(t)
        \/ StartClear(t)
        \/ ValidateCheck(t)
        \/ DiscoverCheck(t)
        \/ DiscoverFetch(t)
        \/ DiscoverBody(t)
        \/ DiscoverStore(t)
        \/ ValidateStore(t)
        \/ ClearModels(t)
        \/ ClearValidated(t)

\* The provider when its tasks call infer
InferNext ==
    \E t \in Tasks :
        \/ StartInfer(t)
        \/ ValidateCheck(t)
        \/ DiscoverCheck(t)
        \/ DiscoverFetch(t)
        \/ DiscoverBody(t)
        \/ DiscoverStore(t)
        \/ ValidateStore(t)
        \/ InferSend(t)
        \/ Acquire(t)
        \/ AllocDescriptor(t)
        \/ WriteString(t)
        \/ CallSign(t)
        \/ ReadDescriptor(t)
        \/ ReadString(t)
        \/ FreeAll(t)
        \/ InferPost(t)
        \/ InferResponse(t)
        \/ InferErrorBody(t)
        \/ InferReadText(t)
        \/ ClearModels(t)
        \/ ClearValidated(t)

(***************************************************************************)
(* The embeddings endpoint: create_embeddings_handler                      *)
(***************************************************************************)
\* The input strings of the requests
EmbeddingTexts == {"Hello, world!", "This is a test"}

\* EmbeddingsInput: String(s) or StringArray(arr)
EmbeddingsInputs ==
    {[kind |-> "String", value |-> s] : s \in EmbeddingTexts}
    \cup {[kind |-> "StringArray", value |-> arr] :
              arr \in SeqsUpTo(EmbeddingTexts, MaxInputs)}

\* The model names of the requests: one the configuration knows, one it
\* does not
KnownEmbeddingModels == {"text-embedding-3-small"}
EmbeddingModelNames == KnownEmbeddingModels \cup {"nonexistent-model"}

\* The vectors embedding_model.embed can answer with
EmbeddingVectors == {<<1>>, <<2>>}

\* A variant that numbers the embeddings from one
Embedding_FromOne(index, vector) ==
    [object |-> "embedding", embedding |-> vector, index |-> index + 1]

\* The Embedding pushed for the input at position `index` of the
\* enumeration
Embedding(index, vector) ==
    [object |-> "embedding", embedding |-> vector, index |-> index]

EmbInit ==
    /\ emb_pc = "idle"
    /\ emb_req = [input |-> [kind |-> "StringArray", value |-> << >>], model |-> ""]
    /\ emb_inputs = << >>
    /\ embeddings = << >>
    /\ embed_calls = << >>
    /\ emb_ret = None

\* The handler is called with a request; lines 47-50: the inputs
CreateEmbeddings ==
    /\ emb_pc = "idle"
    /\ \E i \in EmbeddingsInputs, m \in EmbeddingModelNames :
           /\ emb_req' = [input |-> i, model |-> m]
           /\ emb_inputs' = IF i.kind = "String" THEN << i.value >> ELSE i.value
    /\ emb_pc' = "get_model"
    /\ UNCHANGED << embeddings, embed_calls, emb_ret >>
    /\ UNCHANGED non_emb_vars

\* lines 53-56: embedding_models.get(&req.model) fails, or finds no model
\* (UnknownModel), or finds the model
GetEmbeddingModel ==
    /\ emb_pc = "get_model"
    /\ \/ /\ emb_ret' = Some([ok |-> FALSE, error |-> "Config", name |-> ""])
          /\ emb_pc' = "done"
       \/ /\ emb_req.model \notin KnownEmbeddingModels
          /\ emb_ret' = Some([ok |-> FALSE, error |-> "UnknownModel",
                              name |-> emb_req.model])
          /\ emb_pc' = "done"
       \/ /\ emb_req.model \in KnownEmbeddingModels
          /\ emb_pc' = "embed"
          /\ UNCHANGED emb_ret
    /\ UNCHANGED << emb_req, emb_inputs, embeddings, embed_calls >>
    /\ UNCHANGED non_emb_vars

\* lines 70-86: one turn of the loop; embed fails and `?` returns the
\* error, or its embedding is pushed with the index of the enumeration
EmbedInput ==
    /\ emb_pc = "embed"
    /\ Len(embeddings) < Len(emb_inputs)
    /\ LET index == Len(embeddings)
           input_text == emb_inputs[index + 1]
       IN  \/ /\ embed_calls' = Append(embed_calls,
                                       [input |-> input_text, result |-> None])
              /\ emb_ret' = Some([ok |-> FALSE, error |-> "Embed", name |-> ""])
              /\ embeddings' = << >>
              /\ emb_pc' = "done"
           \/ \E v \in EmbeddingVectors :
                  /\ embed_calls' = Append(embed_calls,
                                           [input |-> input_text, result |-> Some(v)])
                  /\ embeddings' = Append(embeddings, Embedding(index, v))
                  /\ UNCHANGED << emb_ret, emb_pc >>
    /\ UNCHANGED << emb_req, emb_inputs >>
    /\ UNCHANGED non_emb_vars

\* lines 88-92: the response
ReturnEmbeddings ==
    /\ emb_pc = "embed"
    /\ Len(embeddings) = Len(emb_inputs)
    /\ emb_ret' = Some([ok |-> TRUE, object |-> "list", model |-> emb_req.model,
                        data |-> embeddings])
    /\ embeddings' = << >>
    /\ emb_pc' = "done"
    /\ UNCHANGED << emb_req, emb_inputs, embed_calls >>
    /\ UNCHANGED non_emb_vars

EmbNext ==
    \/ CreateEmbeddings
    \/ GetEmbeddingModel
    \/ EmbedInput
    \/ ReturnEmbeddings

(***************************************************************************)
(* validate_model and check_model_availability on the same discovered list *)
(***************************************************************************)
\* The model types the API is known to send, and one it is not
ModelTypeNames == {"base", "freeTrial", "premium", "custom"}

\* The lists discover_models can return: any models, also of a type the
\* provider does not know and several with one name
DiscoveredModels ==
    {ModelInfo(n, ty, u, FALSE) : n \in ModelNames, ty \in ModelTypeNames, u \in {0, 1}}

DiscoveredLists == SeqsUpTo(DiscoveredModels, MaxModels)

\* `models.iter().find(|m| m.model_name == model_name)`: the index of the
\* first match, 0 for None
FindModel(models, name) ==
    IF \E i \in DOMAIN models : models[i].model_name = name
    THEN CHOOSE i \in DOMAIN models :
             /\ models[i].model_name = name
             /\ \A j \in 1..(i - 1) : models[j].model_name # name
    ELSE 0

Available(type, usage_left, is_premium) ==
    [kind |-> "Available", model_type |-> type, usage_left |-> usage_left,
     is_premium |-> is_premium]

Unavailable(reason, type) ==
    [kind |-> "Unavailable", reason |-> reason, model_type |-> type]

\* check_model_availability on the list discover_models returned
check_model_availability(models, name) ==
    LET i == FindModel(models, name)
    IN  IF i = 0 THEN Unavailable("ModelNotFound", "Unknown")
        ELSE LET model_info == models[i]
             IN  IF model_info.model_type = "base"
                 THEN Available("Base", None, FALSE)
                 ELSE IF model_info.model_type = "freeTrial"
                 THEN IF model_info.usage_left > 0
                      THEN Available("FreeTrial", Some(model_info.usage_left), FALSE)
                      ELSE Unavailable("UsageLimitExceeded", "FreeTrial")
                 ELSE IF model_info.model_type = "premium"
                 THEN IF model_info.usage_left > 0
                      THEN Available("Premium", Some(model_info.usage_left), TRUE)
                      ELSE Unavailable("UsageLimitExceeded", "Premium")
                 ELSE Unavailable("UnknownModelType", "Unknown")

\* A task calls check_model_availability(model_name), which calls
\* discover_models first (line 589)
StartAvailability(t) ==
    /\ ProviderMade
    /\ pv[t].pc = "idle"
    /\ pv_ops < MaxOps
    /\ pv_ops' = pv_ops + 1
    /\ \E n \in ModelNames :
           pv' = [pv EXCEPT ![t] = [IdleTask EXCEPT !.pc = "d_check",
                                                    !.op = "availability",
                                                    !.name = n,
                                                    !.expect = first_success,
                                                    !.need = pv_clock.cleared]]
    /\ UNCHANGED << model_filter, effective_model_name, api_lists, available_models,
                    validated_models, am_writer, first_success, fetch_ok, pv_clock >>
    /\ UNCHANGED non_prov_vars

\* lines 591-643: the match on the list discover_models returned
AvailabilityMatch(t) ==
    /\ pv[t].pc = "a_match"
    /\ pv' = [pv EXCEPT ![t].pc = "idle",
                        ![t].ret = Some(Ok(check_model_availability(pv[t].models,
                                                                    pv[t].name))),
                        ![t].models = << >>, ![t].need = 0, ![t].tag = 0]
    /\ UNCHANGED << model_filter, effective_model_name, api_lists, available_models,
                    validated_models, am_writer, pv_ops, first_success, fetch_ok,
                    pv_clock >>
    /\ UNCHANGED non_prov_vars

\* The provider when its tasks call validate_model and
\* check_model_availability
AvNext ==
    \E t \in Tasks :
        \/ StartValidate(t)
        \/ StartAvailability(t)
        \/ ValidateCheck(t)
        \/ DiscoverCheck(t)
        \/ DiscoverFetch(t)
        \/ DiscoverBody(t)
        \/ DiscoverStore(t)
        \/ ValidateStore(t)
        \/ AvailabilityMatch(t)

(***************************************************************************)
(* Specifications                                                          *)
(***************************************************************************)
Init == SseInit /\ SignInit /\ EventInit /\ LoaderInit /\ ProviderInit /\ EmbInit

\* The transducer
SseSpec == Init /\ [][SseNext]_vars

\* No signer and no provider yet (the transducer is given an empty source)
IdleStart == Init /\ byte_stream = << >> /\ model_name = S_unknown_model

\* The signing bridge: the signer in hand came from get_instance, so the
\* cell holds the Ok of the one run of new()
SignStart ==
    /\ SseInit /\ byte_stream = << >> /\ model_name = S_unknown_model
    /\ SignInit /\ EventInit /\ LoaderForced({"ok"}) /\ ProviderInit /\ EmbInit

\* The transducer on the repertoire of whole events
EventsStart ==
    SseInitWith(EventItems) /\ SignInit /\ EventInit /\ LoaderInit /\ ProviderInit
    /\ EmbInit

SseEventsSpec == EventsStart /\ [][SseNext]_vars

\* The transducer with a consumer that keeps pulling and a source that
\* answers every read
\* A short repertoire: one event, two events, a chunk that does not decode
\* and a transport error
FairItems == [kind : {"bytes"}, bytes : {B_message, B_two, B_split}]
             \cup {[kind |-> "err", bytes |-> << >>]}

FairStart ==
    /\ SseInitWith(FairItems) /\ model_name = S_unknown_model
    /\ SignInit /\ EventInit /\ LoaderInit /\ ProviderInit /\ EmbInit

\* The line loop runs to its return or to its await inside the poll: a
\* ProcessBufferedLines step, told by the position alone
LeaveLineLoop == pc = "lines" /\ pc' \in {"idle", "read"}

\* byte_stream.next() is answered, by bytes, an error or the end: a
\* ReadBytes, ReadInvalidUtf8, ReadError or ReadEnd step, told by the
\* position alone
SourceAnswers == pc = "read" /\ pc' \in {"lines", "idle", "done"}

\* The consumer keeps polling, the line loop ends, and the source answers
\* every byte_stream.next()
SseFairSpec ==
    FairStart /\ [][SseNext]_vars
    /\ WF_vars(Pull) /\ WF_pc(LeaveLineLoop) /\ WF_pc(SourceAnswers)

SignSpec == SignStart /\ [][SignNext]_vars

\* What the scheduler owes a caller: a thread that can run its next step
\* runs it, and a thread waiting in lock() gets the mutex if it is free
\* again and again
SignFairness ==
    \A t \in Callers :
        /\ SF_vars(Acquire(t))
        /\ WF_vars(AllocDescriptor(t)) /\ WF_vars(WriteString(t))
        /\ WF_vars(CallSign(t)) /\ WF_vars(ReadDescriptor(t))
        /\ WF_vars(ReadString(t)) /\ WF_vars(FreeAll(t))

\* The signing bridge under fair scheduling
SignFairSpec == SignStart /\ [][SignNext]_vars /\ SignFairness

\* process_single_dev_event called directly (request id "r1", default model)
EventSpec == IdleStart /\ [][EventNext]_vars

\* get_instance called by the callers
LoaderSpec == IdleStart /\ [][LoaderNext]_vars

\* The provider shared by the tasks, under each of the filters
ProviderStart ==
    /\ SseInitWith({}) /\ model_name = S_unknown_model
    /\ SignInit /\ EventInit
    /\ ProviderInitWith(ModelFilters, FALSE, {"p"})
    /\ EmbInit

ProviderSpec == ProviderStart /\ [][ProviderNext]_vars

\* A step of a call under way: a lock taken, the API answering, a return
CallStep(t) ==
    \/ ValidateCheck(t)
    \/ DiscoverCheck(t)
    \/ DiscoverFetch(t)
    \/ DiscoverBody(t)
    \/ DiscoverStore(t)
    \/ ValidateStore(t)
    \/ InferSend(t)
    \/ Acquire(t)
    \/ AllocDescriptor(t)
    \/ WriteString(t)
    \/ CallSign(t)
    \/ ReadDescriptor(t)
    \/ ReadString(t)
    \/ FreeAll(t)
    \/ InferPost(t)
    \/ InferResponse(t)
    \/ InferErrorBody(t)
    \/ InferReadText(t)
    \/ ClearModels(t)
    \/ ClearValidated(t)

\* The tasks call any of the four operations
AllCallsNext ==
    \E t \in Tasks :
        \/ StartDiscover(t)
        \/ StartValidate(t)
        \/ StartClear(t)
        \/ StartInfer(t)
        \/ CallStep(t)

\* The provider of model "p" with no filter
AllCallsStart ==
    /\ SseInitWith({}) /\ model_name = S_unknown_model
    /\ SignInit /\ EventInit
    /\ ProviderInitWith({None}, FALSE, {"p"})
    /\ EmbInit

\* The runtime polls every task that can go on, the locks are granted in
\* turn, and every API call is answered
ProviderFairSpec ==
    AllCallsStart /\ [][AllCallsNext]_vars /\ \A t \in Tasks : WF_vars(CallStep(t))

\* The provider of each of the model names, under each of the filters
InferStart ==
    /\ SseInitWith({}) /\ model_name = S_unknown_model
    /\ SignInit /\ EventInit
    /\ ProviderInitWith(ModelFilters, FALSE, ModelNames)
    /\ EmbInit

InferSpec == InferStart /\ [][InferNext]_vars

\* The embeddings endpoint handling one request
EmbeddingsSpec == IdleStart /\ [][EmbNext]_vars

\* The provider with the clear_model_cache calls counted
ClearCountStart ==
    /\ SseInitWith({}) /\ model_name = S_unknown_model
    /\ SignInit /\ EventInit
    /\ ProviderInitWith({None}, TRUE, {"p"})
    /\ EmbInit

ClearCountSpec == ClearCountStart /\ [][ProviderNext]_vars

\* validate_model and check_model_availability on every discovered list of
\* up to MaxModels models and every model name
AvailabilityStart ==
    /\ SseInitWith({}) /\ model_name = S_unknown_model
    /\ SignInit /\ EventInit /\ EmbInit
    /\ ProviderInitOn({None}, FALSE, {"p"}, {{l} : l \in DiscoveredLists})

AvailabilitySpec == AvailabilityStart /\ [][AvNext]_vars

\* Every step of the program is a step of one of the components; each is
\* checked under its own specification
Next == SseNext \/ SignNext \/ EventNext \/ LoaderNext \/ ProviderNext \/ InferNext
            \/ EmbNext \/ AvNext

(***************************************************************************)
(* Vocabulary of the properties                                            *)
(***************************************************************************)
HasFinishReason(ch) == ch.choices[1].finish_reason # None

IsErrorChunk(ch) ==
    /\ ch.choices[1].finish_reason = Some(S_stop)
    /\ ch.choices[1].delta.content # None
    /\ Len(ch.choices[1].delta.content[1]) >= Len(S_stream_error_tag)
    /\ SubSeq(ch.choices[1].delta.content[1], 1, Len(S_stream_error_tag)) = S_stream_error_tag

IsStopChunk(ch) ==
    /\ ch.choices[1].finish_reason = Some(S_stop)
    /\ ch.choices[1].delta.content = None

\* the item about to be read is a transport fault or is not UTF-8 by itself
IsFault(item) == item.kind = "err" \/ ~from_utf8(item.bytes).ok

Returned(t) == call[t].pc = "idle" /\ call[t].ret # None

OwnedBlocks(t) == {b \in heap : b.owner = call[t].id}

(***************************************************************************)
(* Transducer properties (SseSpec)                                         *)
(***************************************************************************)
\* C1: when the stream has ended, exactly one emitted chunk has a
\* finish_reason and that chunk is the last one emitted.
C1_ExactlyOneTerminalChunkLast ==
    pc = "done" =>
        /\ Cardinality({i \in DOMAIN output : HasFinishReason(output[i])}) = 1
        /\ HasFinishReason(output[Len(output)])

\* C2: once the accumulator is finished, no step emits a chunk or changes
\* the accumulator.
C2_FinishedIsFrozen ==
    [][accumulator.is_finished => (output' = output /\ accumulator' = accumulator)]_vars

\* C3: the stream ends without a final chunk only if an error chunk was
\* emitted earlier; every other ended stream has a stop or error chunk last.
C3_SilentEndOnlyAfterErrorChunk ==
    /\ silent_end => \E i \in DOMAIN output : IsErrorChunk(output[i])
    /\ (pc = "done" /\ ~silent_end) =>
           /\ output # << >>
           /\ (IsStopChunk(output[Len(output)]) \/ IsErrorChunk(output[Len(output)]))

\* C8: a read failure or a byte chunk that is not UTF-8 yields exactly one
\* error chunk in that step, touching neither the pending event, the buffer
\* nor the accumulator; the next pull ends the stream and the source is not
\* read again.
C8_FaultEndsStream ==
    [][ /\ (pc = "read" /\ byte_stream # << >> /\ IsFault(Head(byte_stream))) =>
              /\ Len(output') = Len(output) + 1
              /\ SubSeq(output', 1, Len(output)) = output
              /\ IsErrorChunk(output'[Len(output')])
              /\ accumulator' = accumulator
              /\ dispatched' = dispatched
              /\ decoder_buffer' = decoder_buffer
              /\ current_data_buffer' = current_data_buffer
              /\ current_event_name' = current_event_name
              /\ final_chunk_sent'
        /\ final_chunk_sent =>
              /\ reads' = reads
              /\ byte_stream' = byte_stream
              /\ output' = output
              /\ pc' = "done"
      ]_vars

\* C8 witness: the stream ended on a fault while an event was pending and
\* input was left unread
C8_Witness ==
    /\ pc = "done"
    /\ ~silent_end
    /\ ~accumulator.is_finished
    /\ current_data_buffer # << >>
    /\ byte_stream # << >>
    /\ IsErrorChunk(output[Len(output)])

\* C9: on source exhaustion a pending event with data is dispatched, and no
\* chunk is emitted for it.
C9_PendingEventDispatchedAtEnd ==
    [][ (pc = "read" /\ byte_stream = << >> /\ current_data_buffer # << >>) =>
            /\ Len(dispatched') = Len(dispatched) + 1
            /\ \A i \in DOMAIN origin' : i > Len(origin) => origin'[i] = 0
      ]_vars

\* C10: the chunks produced by events appear in the order in which their
\* events stand in the input, each event at most once, and each of them is
\* the chunk of a dispatched event.
C10_ChunksInEventOrder ==
    /\ Len(origin) = Len(output)
    /\ \A i, j \in DOMAIN origin :
           (i < j /\ origin[i] > 0 /\ origin[j] > 0) => origin[i] < origin[j]
    /\ \A i, j \in DOMAIN dispatched :
           i < j => dispatched[i].start < dispatched[j].start
    /\ \A i \in DOMAIN origin :
           origin[i] > 0 => \E k \in DOMAIN dispatched : dispatched[k].start = origin[i]

\* C10 witness: two events have produced chunks
C10_Witness ==
    \E i, j \in DOMAIN origin : i < j /\ origin[i] > 0 /\ origin[j] > 0

(***************************************************************************)
(* Signing bridge properties (SignSpec)                                    *)
(***************************************************************************)
\* C4: a sign call that fails while reading or decoding the result returns
\* with none of its blocks still allocated.
C4_ReadFailureFreesAll ==
    \A t \in Callers :
        (Returned(t) /\ call[t].ret[1].why = "read_result") => OwnedBlocks(t) = {}

\* C5: a sign call that fails because the allocator returned 0 returns with
\* none of its blocks still allocated.
C5_AllocFailureFreesAll ==
    \A t \in Callers :
        (Returned(t) /\ call[t].ret[1].why = "malloc_zero") => OwnedBlocks(t) = {}

\* C6: at most one caller is inside the protocol, it holds the lock, and
\* every signature returned is the signature of that call's own inputs.
C6_SignSerialized ==
    /\ Cardinality({t \in Callers : call[t].pc \in InProtocol}) <= 1
    /\ \A t \in Callers : call[t].pc \in InProtocol => lock = t
    /\ \A t \in Callers :
           (Returned(t) /\ call[t].ret[1].ok) =>
               call[t].ret[1].value =
                   from_utf8(SignatureOf(call[t].inputs[1], call[t].inputs[2],
                                         call[t].inputs[3], call[t].inputs[4])).text

\* C6 witness: two callers with different inputs, one returned its
\* signature while the other, which had to wait, is inside the protocol
C6_Witness ==
    \E t, u \in Callers :
        /\ t # u
        /\ Returned(t) /\ call[t].ret[1].ok
        /\ call[u].pc = "free"
        /\ call[u].inputs # call[t].inputs
        /\ call[u].id < call[t].id

\* C7: no sign call panics.
C7_SignNeverPanics ==
    \A t \in Callers : call[t].pc # "panicked"

(***************************************************************************)
(* Transducer properties, continued (SseSpec)                              *)
(***************************************************************************)
\* C11: when the source is exhausted while is_finished is false, that step
\* sets is_finished and emits exactly one chunk, a stop chunk with an empty
\* delta, after the chunks already emitted (one content event and then the
\* end of the source is the two-chunk case of this).
C11_ExhaustionEmitsStopChunk ==
    [][ (pc = "read" /\ byte_stream = << >> /\ ~accumulator.is_finished) =>
            /\ accumulator'.is_finished
            /\ Len(output') = Len(output) + 1
            /\ SubSeq(output', 1, Len(output)) = output
            /\ IsStopChunk(output'[Len(output')])
      ]_vars

\* C19: every emitted chunk carries the request id and the resolved model
\* name (options.model, or "unknown-dev-model" when absent), has object
\* "chat.completion.chunk" and exactly one choice, whose index is 0.
C19_ChunksCarryIdAndModel ==
    /\ request_id = <<"r","1">>
    /\ \E m \in ModelOptions :
           model_name = IF m = None THEN S_unknown_model ELSE m[1]
    /\ \A i \in DOMAIN output :
           /\ output[i].id = request_id
           /\ output[i].model = model_name
           /\ output[i].object = S_object
           /\ Len(output[i].choices) = 1
           /\ output[i].choices[1].index = 0

\* C19 witness: with a model named in the options, a content chunk and a
\* stop chunk were emitted
C19_Witness ==
    /\ model_name # S_unknown_model
    /\ \E i, j \in DOMAIN output :
           /\ ~HasFinishReason(output[i])
           /\ IsStopChunk(output[j])

(***************************************************************************)
(* Transducer properties on whole events (SseEventsSpec)                   *)
(***************************************************************************)
\* The lines of the text received, from the offset `from` on, each with
\* the offset of its first character; what follows the last newline is a
\* line too, as the flush at the end of the source reads it
RECURSIVE ReceivedLinesFrom(_, _)
ReceivedLinesFrom(text, from) ==
    IF from > Len(text) THEN << >>
    ELSE IF FindFrom(text, "\n", from) = 0
    THEN << [text |-> TrimEndMatches(SubSeq(text, from, Len(text)), "\r"),
             start |-> from] >>
    ELSE << [text |-> TrimEndMatches(SubSeq(text, from,
                                            FindFrom(text, "\n", from) - 1), "\r"),
             start |-> from] >>
         \o ReceivedLinesFrom(text, FindFrom(text, "\n", from) + 1)

\* The event a list of data lines makes under a name: `closed` tells an
\* event ended by its blank line from the one pending at the end of the
\* text; no data line, no event
EventOf(name, pending, start, closed) ==
    IF pending = << >> THEN << >>
    ELSE << [name |-> name, data |-> JoinLines(pending), start |-> start,
             closed |-> closed] >>

\* The events of a list of lines, as the event stream format frames them:
\* an event line names the event, data lines add to it, a blank line ends
\* it and the name is "message" again; an event still pending at the end
\* of the lines is the last one
RECURSIVE ReceivedEventsOf(_, _, _, _)
ReceivedEventsOf(lines, name, pending, start) ==
    IF lines = << >> THEN EventOf(name, pending, start, FALSE)
    ELSE IF parse_sse_line(Head(lines).text).kind = "Empty"
    THEN EventOf(name, pending, start, TRUE)
         \o ReceivedEventsOf(Tail(lines), S_message, << >>, 0)
    ELSE IF parse_sse_line(Head(lines).text).kind = "Event"
    THEN ReceivedEventsOf(Tail(lines), parse_sse_line(Head(lines).text).value,
                          pending, start)
    ELSE IF parse_sse_line(Head(lines).text).kind = "Data"
    THEN ReceivedEventsOf(Tail(lines), name,
                          Append(pending, parse_sse_line(Head(lines).text).value),
                          IF pending = << >> THEN Head(lines).start ELSE start)
    ELSE ReceivedEventsOf(Tail(lines), name, pending, start)

\* The events the stream has received so far
ReceivedEvents ==
    ReceivedEventsOf(ReceivedLinesFrom(received, 1), S_message, << >>, 0)

\* The characters with the Unicode property White_Space
UnicodeWhiteSpace ==
    {"\t", "\n", "U+000B", "\f", "\r", " ", "U+0085", "U+00A0", "U+1680",
     "U+2000", "U+2001", "U+2002", "U+2003", "U+2004", "U+2005", "U+2006",
     "U+2007", "U+2008", "U+2009", "U+200A", "U+2028", "U+2029", "U+202F",
     "U+205F", "U+3000"}

\* A text without the white space around it: from its first character
\* that is not white space to its last
Stripped(s) ==
    IF \A i \in DOMAIN s : s[i] \in UnicodeWhiteSpace THEN << >>
    ELSE SubSeq(s,
                CHOOSE i \in DOMAIN s :
                    /\ s[i] \notin UnicodeWhiteSpace
                    /\ \A k \in 1..(i - 1) : s[k] \in UnicodeWhiteSpace,
                CHOOSE j \in DOMAIN s :
                    /\ s[j] \notin UnicodeWhiteSpace
                    /\ \A k \in (j + 1)..Len(s) : s[k] \in UnicodeWhiteSpace)

\* The questions of one data text: its lines, stripped, the empty ones
\* dropped (a data text of one line holds one question)
StrippedLines(d) ==
    SelectSeq([i \in 1..Len(SplitNewline(d)) |-> Stripped(SplitNewline(d)[i])],
              LAMBDA q : q # << >>)

\* The questions of the rlq and q events of a list of events, in its order
RECURSIVE QuestionsOf(_)
QuestionsOf(log) ==
    IF log = << >> THEN << >>
    ELSE IF Head(log).name \in {S_rlq, S_q} /\ Head(log).data # << >>
         THEN StrippedLines(Head(log).data) \o QuestionsOf(Tail(log))
         ELSE QuestionsOf(Tail(log))

\* The source was exhausted and the stop chunk emitted, no error event seen
EndedNormally ==
    /\ final_chunk_sent
    /\ output # << >>
    /\ IsStopChunk(output[Len(output)])
    /\ accumulator.error = None

\* C12: when a stream ends normally, related_questions is the list of the
\* trimmed, non-empty questions of the rlq and q events it received, in
\* arrival order.
C12_RelatedQuestionsAtEnd ==
    EndedNormally => accumulator.related_questions = QuestionsOf(ReceivedEvents)

\* Every event received was handed to process_single_dev_event, under its
\* name and with its data
NoEventLost ==
    [k \in DOMAIN dispatched |-> [name |-> dispatched[k].name,
                                  data |-> dispatched[k].data]]
        = [k \in DOMAIN ReceivedEvents |-> [name |-> ReceivedEvents[k].name,
                                            data |-> ReceivedEvents[k].data]]

\* Where no event was lost the list is the one of the events received
QuestionsListedWhereNoEventLost ==
    (EndedNormally /\ NoEventLost) =>
        accumulator.related_questions = QuestionsOf(ReceivedEvents)

\* A stream with an rlq event of two padded lines and a q event ended
\* normally with three questions
ThreeQuestionsListed ==
    /\ EndedNormally
    /\ NoEventLost
    /\ Len(ReceivedEvents) = 2
    /\ ReceivedEvents[1].name = S_rlq /\ ReceivedEvents[2].name = S_q
    /\ accumulator.related_questions = << <<"c">>, <<"d">>, <<"b">> >>

\* Payloads that are not JSON: a bare word, an object key left open, a
\* number out of range, raw control characters inside a string
NotJsonPayloads ==
    {<<"x">>, J_action_unclosed, J_sources_range, J_repo_control, J_action_control}

\* A payload event whose data is not JSON text or not JSON of the type
\* its arm asks for
IsMalformedJsonEvent(e) ==
    /\ e.name \in {S_action, S_sources, S_repoSources}
    /\ \/ e.data \in NotJsonPayloads
       \/ Deserialize(ParseDocument(e.data),
                      IF e.name = S_action THEN "DevAction"
                      ELSE IF e.name = S_sources THEN "DevSource"
                      ELSE "DevGithubSource") = None

IsContentEvent(e) ==
    e.name \in {S_message, S_content, S_c} /\ e.data # << >>

\* The accumulator a log of events leads to, starting from acc
RECURSIVE Replay(_, _)
Replay(log, acc) ==
    IF log = << >> THEN acc
    ELSE Replay(Tail(log),
                process_single_dev_event(acc, Head(log).name, Head(log).data,
                                         request_id, model_name).acc)

\* The accumulator without the two fields that finalization writes
BeforeFinalization(acc) ==
    [acc EXCEPT !.is_finished = FALSE, !.related_questions = << >>]

\* No chunk came from a malformed event, dispatched or received
MalformedEventsEmitNothing ==
    /\ \A k \in DOMAIN dispatched :
           IsMalformedJsonEvent(dispatched[k]) =>
               \A o \in DOMAIN origin : origin[o] # dispatched[k].start
    /\ \A k \in DOMAIN ReceivedEvents :
           IsMalformedJsonEvent(ReceivedEvents[k]) =>
               \A o \in DOMAIN origin : origin[o] # ReceivedEvents[k].start

\* The accumulator is the one the other events make
MalformedEventsChangeNothing ==
    BeforeFinalization(accumulator) =
        BeforeFinalization(
            Replay(SelectSeq(dispatched, LAMBDA e : ~IsMalformedJsonEvent(e)),
                   SseAccumulator_default))

\* A stream that held a malformed event, and no error event or fault, has
\* ended with the stop chunk
StopChunkAfterMalformedEvent ==
    ( /\ pc = "done"
      /\ \E k \in DOMAIN ReceivedEvents : IsMalformedJsonEvent(ReceivedEvents[k])
      /\ accumulator.error = None
      /\ \A o \in DOMAIN output : ~IsErrorChunk(output[o]) ) =>
        /\ output # << >>
        /\ IsStopChunk(output[Len(output)])

\* The j-th event received is a content event that came after a malformed
\* event and after no error event
IsContentAfterMalformed(j) ==
    /\ IsContentEvent(ReceivedEvents[j])
    /\ \E k \in 1..(j - 1) : IsMalformedJsonEvent(ReceivedEvents[k])
    /\ \A k \in 1..(j - 1) : ReceivedEvents[k].name # S_error

\* The j-th event received has its content chunk
HasContentChunk(j) ==
    \E o \in DOMAIN origin :
        /\ origin[o] = ReceivedEvents[j].start
        /\ output[o] = create_content_chunk(request_id, model_name,
                                            ReceivedEvents[j].data)

\* C16 as stated: an action, sources or repoSources event whose data is not
\* JSON emits no chunk and leaves the accumulator as if the event had not
\* been there; when the stream has ended every content event received
\* after such an event has its content chunk, and a stream holding such an
\* event (and no error event or fault) has ended with the stop chunk.
C16_LaterContentHasChunk ==
    /\ MalformedEventsEmitNothing
    /\ MalformedEventsChangeNothing
    /\ pc = "done" =>
           \A j \in DOMAIN ReceivedEvents :
               IsContentAfterMalformed(j) => HasContentChunk(j)
    /\ StopChunkAfterMalformedEvent

\* C16, amended: the same, for the content events that were ended by their
\* blank line; the event still pending when the source ends has no chunk.
C16_MalformedJsonIsDropped ==
    /\ MalformedEventsEmitNothing
    /\ MalformedEventsChangeNothing
    /\ pc = "done" =>
           \A j \in DOMAIN ReceivedEvents :
               (IsContentAfterMalformed(j) /\ ReceivedEvents[j].closed) =>
                   HasContentChunk(j)
    /\ StopChunkAfterMalformedEvent

\* C16 witness: a sources event with a number out of range, a repoSources
\* event with a raw tab in a string, then a content event with its chunk,
\* then the stop chunk; the accumulator holds no source
C16_Witness ==
    /\ pc = "done"
    /\ Len(ReceivedEvents) = 3
    /\ ReceivedEvents[1].name = S_sources
    /\ ReceivedEvents[1].data = J_sources_range
    /\ ReceivedEvents[2].name = S_repoSources
    /\ ReceivedEvents[2].data = J_repo_control
    /\ IsContentAfterMalformed(3) /\ ReceivedEvents[3].closed
    /\ Len(dispatched) = 3
    /\ Len(output) = 2
    /\ output[1] = create_content_chunk(request_id, model_name, <<"a">>)
    /\ IsStopChunk(output[2])
    /\ accumulator.sources = << >>
    /\ accumulator.github_sources = << >>
    /\ accumulator.text = <<"a">>

(***************************************************************************)
(* Properties of process_single_dev_event called directly (EventSpec)      *)
(***************************************************************************)
LastEvent == ev_log[Len(ev_log)]

\* C13: right after an rlq event and then a q event were handled, with no
\* finalization, related_questions holds the questions in arrival order.
C13_QuestionsListedWithoutFinalization ==
    ( /\ Len(ev_log) >= 2
      /\ ev_log[Len(ev_log) - 1].name = S_rlq
      /\ LastEvent.name = S_q ) =>
        ev_acc.related_questions = QuestionsOf(ev_log)

\* C14: an error event sets error to its data and is_finished to true and
\* returns no chunk.
C14_ErrorEventReturnsNoChunk ==
    (ev_log # << >> /\ LastEvent.name = S_error) =>
        /\ ev_acc.error = Some(LastEvent.data)
        /\ ev_acc.is_finished
        /\ ev_chunk = None

\* The value of the text field of the JSON objects of the repertoire
HasTextField(d) == d \in {J_text_a, J_text_b}

TextFieldOf(d) == IF d = J_text_a THEN <<"a">> ELSE <<" ","b">>

\* The text the content events of a log add up to, an object with a text
\* field counting for the value of that field
RECURSIVE TextOf(_)
TextOf(log) ==
    IF log = << >> THEN << >>
    ELSE IF IsContentEvent(Head(log))
         THEN (IF HasTextField(Head(log).data)
               THEN TextFieldOf(Head(log).data)
               ELSE Head(log).data) \o TextOf(Tail(log))
         ELSE TextOf(Tail(log))

\* C15: for a content, message or c event whose data is a JSON object with
\* a text field, the value of that field is what is appended to the text
\* and what the chunk's delta.content holds.
C15_TextFieldIsExtracted ==
    (ev_log # << >> /\ IsContentEvent(LastEvent) /\ HasTextField(LastEvent.data)) =>
        /\ ev_acc.text = TextOf(ev_log)
        /\ ev_chunk = Some(create_content_chunk(request_id, model_name,
                                                TextFieldOf(LastEvent.data)))

\* The names the match has an arm for, `finish` apart
HandledNames ==
    {S_message, S_content, S_c, S_action, S_sources, S_repoSources, S_rlq, S_q,
     S_r, S_threadId, S_queryMessageId, S_answerMessageId, S_threadTitle, S_error}

\* C17: a call for a name that is none of the recognised names, or for
\* `finish`, leaves every field of the accumulator unchanged and returns no
\* chunk.
C17_UnknownEventChangesNothing ==
    [][ (ev_log' # ev_log /\ ev_log'[Len(ev_log')].name \notin HandledNames) =>
            /\ ev_acc' = ev_acc
            /\ ev_chunk' = None
      ]_vars

\* C17 witness: an unknown event was handled after an event that had
\* changed the accumulator
C17_Witness ==
    /\ Len(ev_log) = 2
    /\ LastEvent.name = S_unknown_event
    /\ LastEvent.data # << >>
    /\ ev_acc # SseAccumulator_default
    /\ ev_chunk = None

(***************************************************************************)
(* Properties of the lazily initialized signer (LoaderSpec)                *)
(***************************************************************************)
\* C18: WasmSigner::new runs at most once, and not before the first
\* get_instance call; every get_instance call returns what that one run
\* returned: after a failure an error, every time and with no further run,
\* after a success the one instance.
C18_LoadedAtMostOnce ==
    /\ loads <= 1
    /\ gi_started = 0 => (loads = 0 /\ WASM_SIGNER.state = "uninit")
    /\ \A i \in DOMAIN gi_results :
           /\ WASM_SIGNER.state = "done"
           /\ gi_results[i].ok = WASM_SIGNER.value[1].ok
           /\ gi_results[i].error = WASM_SIGNER.value[1].error
    /\ \A i, j \in DOMAIN gi_results :
           (gi_results[i].ok /\ gi_results[j].ok) =>
               gi_results[i].instance = gi_results[j].instance

\* C18 witness: loading failed for want of an export; two calls of two
\* callers have returned the error, after a single run of the initializer
C18_Witness ==
    /\ loads = 1
    /\ Len(gi_results) = 2
    /\ gi_results[1].caller # gi_results[2].caller
    /\ ~gi_results[1].ok /\ ~gi_results[2].ok
    /\ gi_results[2].error = "no_free"

(***************************************************************************)
(* Properties of the provider's caches (ProviderSpec)                      *)
(***************************************************************************)
\* C20: a discover_models call started after a call has succeeded, with no
\* clear_model_cache call since, makes no API request and returns the list
\* that call returned; as long as no API request has succeeded nothing is
\* cached.
C20_CachedListIsStable ==
    /\ \A t \in Tasks :
           pv[t].expect # None =>
               /\ pv[t].pc \notin {"d_fetch", "d_body", "d_store"}
               /\ (pv[t].pc = "idle" /\ pv[t].op = "discover" /\ pv[t].ret # None) =>
                      pv[t].ret[1] = Ok(pv[t].expect[1])
               /\ pv[t].pc = "v_store" => pv[t].models = pv[t].expect[1]
    /\ ~fetch_ok => available_models = None

(***************************************************************************)
(* Properties of the provider's caches, second part (ClearCountSpec)       *)
(***************************************************************************)
\* Task t returns from its operation in this step
ProviderReturns(t) == pv[t].pc # "idle" /\ pv'[t].pc = "idle"

\* The clear count under which the data was fetched that a call returning
\* from its present position answers with: a cached verdict, the cached
\* list, or the list in hand
AnswerTag(t) ==
    IF pv[t].pc = "v_check" THEN pv_clock.vm_tag[pv[t].name]
    ELSE IF pv[t].pc = "d_check" THEN pv_clock.am_tag
    ELSE pv[t].tag

\* C21: when clear_model_cache returns both caches are empty, and a
\* discover_models or validate_model call that starts after a
\* clear_model_cache call returned is answered from data the API delivered
\* after that clear_model_cache call was made - whatever other calls were
\* running during the clear.
C21_AnswersAreFetchedAfterClear ==
    [][ \A t \in Tasks :
          ProviderReturns(t) =>
              /\ (pv[t].op = "clear") =>
                     /\ available_models' = None
                     /\ validated_models' = EmptyMap
              /\ (pv[t].op \in {"discover", "validate"} /\ pv'[t].ret[1].ok) =>
                     AnswerTag(t) >= pv[t].need
      ]_vars

(***************************************************************************)
(* Properties of infer (InferSpec)                                         *)
(***************************************************************************)
\* C22: infer sends a request only after validate_model returned true for
\* the model name; on a false verdict it returns the 400 error and has sent
\* nothing; when it returns the response both caches have just been
\* cleared; the step in which the request or the reading of the response
\* fails changes neither cache.
C22_InferValidatesThenClears ==
    [][ \A t \in Tasks :
          (pv[t].op = "infer" /\ pv[t].pc # "idle") =>
              /\ (pv'[t].sent # pv[t].sent) =>
                     /\ pv[t].valid = Some(TRUE)
                     /\ pv[t].sent = 0
              /\ (pv[t].pc = "i_send" /\ pv[t].valid = Some(FALSE)
                      /\ pv'[t].pc # "i_send") =>
                     /\ pv'[t].pc = "idle"
                     /\ pv'[t].ret = Some(Err400)
                     /\ pv'[t].sent = 0
              /\ (ProviderReturns(t) /\ pv'[t].ret[1].ok) =>
                     /\ pv[t].sent = 1
                     /\ pv[t].pc = "c_validated"
                     /\ available_models' = None
                     /\ validated_models' = EmptyMap
              /\ (ProviderReturns(t)
                      /\ pv[t].pc \in {"i_send", "i_sign", "i_exec", "i_errbody", "i_text"}) =>
                     /\ ~pv'[t].ret[1].ok
                     /\ UNCHANGED << available_models, validated_models >>
      ]_vars

\* C22 witness: one infer call returned the response after its request,
\* leaving both caches empty, and another returned the 400 error without
\* sending
C22_Witness ==
    \E t, u \in Tasks :
        /\ pv[t].op = "infer" /\ pv[t].pc = "idle"
        /\ pv[t].ret = Some(Ok(S_response_text))
        /\ pv[t].sent = 1
        /\ pv[u].op = "infer" /\ pv[u].pc = "idle"
        /\ pv[u].ret = Some(Err400)
        /\ pv[u].sent = 0
        /\ available_models = None
        /\ validated_models = EmptyMap

(***************************************************************************)
(* Properties of the embeddings endpoint (EmbeddingsSpec)                  *)
(***************************************************************************)
\* C23: a response holds one embedding per input, in input order, the
\* embedding of the input at position i of the enumeration (from 0)
\* carrying index i; a single string is one input and an empty array gives
\* an empty list; when the configuration has no model of the requested
\* name the handler returns UnknownModel and has made no embed call; when
\* an embed call has failed the handler returns an error, not a list.
C23_OneEmbeddingPerInput ==
    /\ (emb_pc # "idle") =>
           /\ (emb_req.input.kind = "String") => emb_inputs = << emb_req.input.value >>
           /\ (emb_req.input.kind = "StringArray") => emb_inputs = emb_req.input.value
    /\ (emb_pc = "done") =>
           LET r == emb_ret[1]
           IN  /\ r.ok =>
                      /\ r.model = emb_req.model
                      /\ Len(r.data) = Len(emb_inputs)
                      /\ Len(embed_calls) = Len(emb_inputs)
                      /\ \A i \in 1..Len(r.data) :
                             /\ r.data[i].index = i - 1
                             /\ embed_calls[i].input = emb_inputs[i]
                             /\ embed_calls[i].result = Some(r.data[i].embedding)
               /\ (emb_req.model \notin KnownEmbeddingModels /\ embed_calls = << >>
                       /\ r.error # "Config") =>
                      r = [ok |-> FALSE, error |-> "UnknownModel",
                           name |-> emb_req.model]
               /\ (emb_req.model \notin KnownEmbeddingModels) =>
                      /\ ~r.ok
                      /\ embed_calls = << >>
               /\ (\E i \in 1..Len(embed_calls) : embed_calls[i].result = None) =>
                      /\ ~r.ok
                      /\ r.error = "Embed"

\* C23 witness: a request with two different inputs was answered with two
\* embeddings of different vectors
C23_Witness ==
    /\ emb_pc = "done"
    /\ emb_ret # None /\ emb_ret[1].ok
    /\ Len(emb_inputs) = 2
    /\ emb_inputs[1] # emb_inputs[2]
    /\ Len(emb_ret[1].data) = 2
    /\ emb_ret[1].data[1].embedding # emb_ret[1].data[2].embedding
    /\ emb_ret[1].data[2].index = 1

(***************************************************************************)
(* Signing bridge properties, second part (SignSpec)                       *)
(***************************************************************************)
\* C27: the deallocations at the end of sign are unconditional: when one
\* free_func call fails, the other buffers of the call are deallocated all
\* the same, so at most the buffer of the failed call stays allocated.
C27_FreeFailureFreesTheRest ==
    \A t \in Callers :
        (Returned(t) /\ call[t].ret[1].why = "free_trap") =>
            Cardinality(OwnedBlocks(t)) <= 1

\* Is x an element of the sequence s
InSeq(x, s) == \E i \in 1..Len(s) : s[i] = x

\* C28: when sign returns a signature, the four input buffers and the
\* descriptor have each been deallocated once, with the size and alignment
\* of their allocation (inputs: byte length and 1; descriptor: 8 and 4),
\* the result buffer with (result_len, 1) exactly when result_ptr # 0, and
\* nothing is deallocated before the result bytes were read.
C28_BuffersFreedAsAllocated ==
    [][ \A t \in Callers :
          LET c == call[t]
              fr == call'[t].frees
          IN  /\ (c.frees # << >>) => InSeq("read_result", c.steps)
              /\ (c.pc \in {"call_sign", "read_desc", "read_string", "free"}) =>
                     /\ [ptr |-> c.ret_ptr_ptr, size |-> 8, align |-> 4,
                         owner |-> c.id] \in heap
                     /\ \A i \in 1..4 :
                            [ptr |-> c.bufs[i][1], size |-> Len(c.inputs[i]),
                             align |-> 1, owner |-> c.id] \in heap
              /\ (c.pc = "free" /\ call'[t].pc = "idle" /\ call'[t].ret[1].ok) =>
                     /\ InSeq("read_result", c.steps)
                     /\ Len(fr) = 5 + (IF c.result_ptr # 0 THEN 1 ELSE 0)
                     /\ \A i \in 1..4 :
                            fr[i] = << c.bufs[i][1], Len(c.inputs[i]), 1 >>
                     /\ fr[5] = << c.ret_ptr_ptr, 8, 4 >>
                     /\ (c.result_ptr # 0) =>
                            fr[6] = << c.result_ptr, c.result_len, 1 >>
                     /\ \A i \in 1..5 :
                            [ptr |-> fr[i][1], size |-> fr[i][2], align |-> fr[i][3],
                             owner |-> c.id] \in heap
                     /\ \A i, j \in 1..Len(fr) : (i # j) => fr[i][1] # fr[j][1]
                     /\ {b \in heap' : b.owner = c.id} = {}
      ]_vars

\* C28 witness: two calls returned a signature, one whose result buffer
\* was allocated, after six deallocations, and one whose descriptor held a
\* null result pointer, after five
C28_Witness ==
    \E t, u \in Callers :
        /\ Returned(t) /\ call[t].ret[1].ok
        /\ call[t].result_ptr # 0
        /\ Len(call[t].frees) = 6
        /\ call[t].frees[6] = << call[t].result_ptr, call[t].result_len, 1 >>
        /\ Returned(u) /\ call[u].ret[1].ok
        /\ call[u].result_ptr = 0
        /\ Len(call[u].frees) = 5
        /\ OwnedBlocks(t) = {} /\ OwnedBlocks(u) = {}

\* Is s an initial segment of u
IsPrefix(s, u) == Len(s) <= Len(u) /\ SubSeq(u, 1, Len(s)) = s

\* C29: the steps of a sign call occur in the order descriptor allocation,
\* the four input writes (nonce, timestamp, device_id, query, each in an
\* allocation of its own), one invocation of the signing export with the
\* descriptor pointer and the four (pointer, length) pairs, the
\* little-endian read of (result_ptr, result_len), the read of result_len
\* bytes at result_ptr, the deallocations; the export is not invoked before
\* the four inputs are written.
C29_StepsInOrder ==
    \A t \in Callers :
        LET c == call[t]
        IN  /\ IsPrefix(c.steps, SignSteps)
            /\ (c.pc = "write") =>
                   /\ [ptr |-> c.ret_ptr_ptr, size |-> 8, align |-> 4,
                       owner |-> c.id] \in heap
                   /\ c.sign_args = << >>
            /\ (c.pc \in {"write", "call_sign"}) =>
                   /\ \A i \in 1..Len(c.bufs) :
                          /\ MemoryRead(mem, c.bufs[i][1], c.bufs[i][2]) =
                                 [ok |-> TRUE, bytes |-> c.inputs[i]]
                          /\ c.bufs[i][1] # c.ret_ptr_ptr
                          /\ \A j \in 1..Len(c.bufs) :
                                 (i # j) => c.bufs[i][1] # c.bufs[j][1]
                   /\ c.sign_args = << >>
            /\ (c.pc = "call_sign") => Len(c.bufs) = 4
            /\ (c.sign_args # << >>) =>
                   /\ InSeq("write_query", c.steps)
                   /\ Len(c.sign_args) = 9
                   /\ c.sign_args[1] = c.ret_ptr_ptr
                   /\ \A i \in 1..4 :
                          /\ c.sign_args[2 * i] = c.bufs[i][1]
                          /\ c.sign_args[2 * i + 1] = Len(c.inputs[i])
            /\ InSeq("sign", c.steps) <=> (c.sign_args # << >>)
            /\ (c.pc \in {"read_string", "free"}) =>
                   MemoryRead(mem, c.ret_ptr_ptr, 8) =
                       [ok |-> TRUE,
                        bytes |-> ToLeBytes(c.result_ptr) \o ToLeBytes(c.result_len)]
            /\ (c.pc = "free" /\ c.result_len > 0) =>
                   /\ MemoryRead(mem, c.result_ptr, c.result_len).ok
                   /\ c.result_string =
                          from_utf8(MemoryRead(mem, c.result_ptr, c.result_len).bytes).text

\* C29 witness: a call went through the nine steps and returned the
\* signature of its four inputs
C29_Witness ==
    \E t \in Callers :
        /\ Returned(t) /\ call[t].ret[1].ok
        /\ call[t].steps = SignSteps
        /\ call[t].inputs[4] # << >>
        /\ call[t].result_ptr # 0
        /\ call[t].ret[1].value =
               SignatureOf(call[t].inputs[1], call[t].inputs[2],
                           call[t].inputs[3], call[t].inputs[4])

(***************************************************************************)
(* Transducer properties, third part (SseSpec)                             *)
(***************************************************************************)
\* C24: when the line loop has processed a blank line the pending event
\* name is "message", also when the event it dispatched produced a chunk
\* (the loop is left to yield a chunk only on a blank line).
C24_EventNameResetAfterBlankLine ==
    [][ (pc = "lines" /\ pc' = "idle") => current_event_name' = S_message ]_vars

(***************************************************************************)
(* Properties of process_single_dev_event, second part (EventSpec)         *)
(***************************************************************************)
\* The event of the call a step makes
NewEvent == ev_log'[Len(ev_log')]

\* C25: a call for an `error` event with data d sets error to d and
\* is_finished to true and returns exactly one chunk, whose delta.content
\* is the stream-error tag followed by d and whose finish_reason is "stop".
C25_ErrorEventYieldsErrorChunk ==
    [][ (ev_log' # ev_log /\ NewEvent.name = S_error) =>
            /\ ev_acc'.error = Some(NewEvent.data)
            /\ ev_acc'.is_finished
            /\ ev_chunk' # None
            /\ ev_chunk'[1].choices[1].delta.content =
                   Some(S_stream_error_tag \o NewEvent.data)
            /\ Len(ev_chunk'[1].choices) = 1
            /\ ev_chunk'[1].choices[1].finish_reason = Some(S_stop)
      ]_vars

\* C25 witness: an error event was handled on an accumulator that was not
\* finished, and its chunk was returned
C25_Witness ==
    /\ Len(ev_log) = 2
    /\ ev_log[1].name = S_content
    /\ LastEvent.name = S_error
    /\ ev_acc.error = Some(<<"x">>)
    /\ ev_acc.is_finished
    /\ ev_chunk # None
    /\ IsErrorChunk(ev_chunk[1])

\* C26: a call for a message, content or c event with non-empty data d
\* makes the text its previous value followed by d, taken literally, and
\* returns one content chunk with delta.content = d and no finish_reason;
\* with empty data the accumulator is unchanged and no chunk is returned.
C26_ContentEventAppendsLiterally ==
    [][ (ev_log' # ev_log /\ NewEvent.name \in {S_message, S_content, S_c}) =>
            IF NewEvent.data # << >>
            THEN /\ ev_acc' = [ev_acc EXCEPT !.text = ev_acc.text \o NewEvent.data]
                 /\ ev_chunk' # None
                 /\ Len(ev_chunk'[1].choices) = 1
                 /\ ev_chunk'[1].choices[1].delta.content = Some(NewEvent.data)
                 /\ ev_chunk'[1].choices[1].finish_reason = None
            ELSE /\ ev_acc' = ev_acc
                 /\ ev_chunk' = None
      ]_vars

\* C26 witness: a second content event was appended, as the literal JSON
\* text it carried, to a text that was not empty
C26_Witness ==
    /\ Len(ev_log) = 2
    /\ ev_log[1] = [name |-> S_content, data |-> <<"a">>]
    /\ LastEvent = [name |-> S_c, data |-> J_text_a]
    /\ ev_acc.text = <<"a">> \o J_text_a
    /\ ev_chunk # None
    /\ ev_chunk[1].choices[1].delta.content = Some(J_text_a)

\* A JSON string as the `extra` map of an entry holds it
JsonString(chars) == [t |-> "string", chars |-> chars]

\* The arrays the well-formed sources payloads hold, written out: title
\* and url are the fields of DevSource, every other key goes to `extra`
SourcesHeld ==
    { << J_sources0, << >> >>,
      << J_sources1,
         << [title |-> None, url |-> Some(<<"u">>), extra |-> << >>] >> >>,
      << J_sources_titled,
         << [title |-> Some(<<"D","o","c"," ","1">>),
             url |-> Some(<<"h","t","t","p",":","/","/","a",".","c","o","m">>),
             extra |-> << >>] >> >>,
      << J_sources_nbsp,
         << [title |-> Some(<<"U+00A0">>), url |-> None, extra |-> << >>] >> >>,
      << J_repo1,
         << [title |-> None, url |-> None,
             extra |-> (<<"r","e","p","o">> :> JsonString(<<"o">>))] >> >> }

\* The same for repoSources: repo and filePath are the fields of
\* DevGithubSource
GithubSourcesHeld ==
    { << J_sources0, << >> >>,
      << J_repo1,
         << [repo |-> Some(<<"o">>), file_path |-> None, extra |-> << >>] >> >>,
      << J_repo_path,
         << [repo |-> Some(<<"o","r","g","/","r","e","p","o">>),
             file_path |-> Some(<<"s","r","c","/","m","a","i","n",".","r","s">>),
             extra |-> << >>] >> >>,
      << J_sources1,
         << [repo |-> None, file_path |-> None,
             extra |-> (<<"u","r","l">> :> JsonString(<<"u">>))] >> >> }

\* The action each well-formed action payload holds
ActionsHeld ==
    { << J_action1, [action_type |-> 1, extra |-> << >>] >>,
      << J_action_extra,
         [action_type |-> 1,
          extra |-> (<<"s","o","m","e","_","d","a","t","a">> :> JsonString(<<"v","a","l","u","e">>))] >> }

\* C30: a well-formed sources (repoSources) event makes sources
\* (github_sources) the parsed array, whatever it held before; a
\* well-formed action event appends one entry to actions and keeps the
\* earlier ones in order; none of the three returns a chunk.
C30_SourcesReplacedActionsAppended ==
    [][ (ev_log' # ev_log) =>
            /\ (NewEvent.name = S_sources
                    /\ safe_json_parse_DevSources(NewEvent.data) # None) =>
                   /\ ev_acc'.sources = safe_json_parse_DevSources(NewEvent.data)[1]
                   /\ ev_acc'.actions = ev_acc.actions
                   /\ ev_acc'.github_sources = ev_acc.github_sources
            /\ (NewEvent.name = S_repoSources
                    /\ safe_json_parse_DevGithubSources(NewEvent.data) # None) =>
                   /\ ev_acc'.github_sources =
                          safe_json_parse_DevGithubSources(NewEvent.data)[1]
                   /\ ev_acc'.actions = ev_acc.actions
                   /\ ev_acc'.sources = ev_acc.sources
            /\ (NewEvent.name = S_action
                    /\ safe_json_parse_DevAction(NewEvent.data) # None) =>
                   /\ Len(ev_acc'.actions) = Len(ev_acc.actions) + 1
                   /\ SubSeq(ev_acc'.actions, 1, Len(ev_acc.actions)) = ev_acc.actions
                   /\ ev_acc'.actions[Len(ev_acc'.actions)] =
                          safe_json_parse_DevAction(NewEvent.data)[1]
                   /\ ev_acc'.sources = ev_acc.sources
                   /\ ev_acc'.github_sources = ev_acc.github_sources
            /\ NewEvent.name \in {S_sources, S_repoSources, S_action} =>
                   ev_chunk' = None
            /\ \A h \in SourcesHeld :
                   (NewEvent.name = S_sources /\ NewEvent.data = h[1]) =>
                       /\ ev_acc'.sources = h[2]
                       /\ ev_acc'.actions = ev_acc.actions
                       /\ ev_acc'.github_sources = ev_acc.github_sources
            /\ \A h \in GithubSourcesHeld :
                   (NewEvent.name = S_repoSources /\ NewEvent.data = h[1]) =>
                       /\ ev_acc'.github_sources = h[2]
                       /\ ev_acc'.actions = ev_acc.actions
                       /\ ev_acc'.sources = ev_acc.sources
            /\ \A h \in ActionsHeld :
                   (NewEvent.name = S_action /\ NewEvent.data = h[1]) =>
                       /\ ev_acc'.actions = Append(ev_acc.actions, h[2])
                       /\ ev_acc'.sources = ev_acc.sources
                       /\ ev_acc'.github_sources = ev_acc.github_sources
            /\ (NewEvent.name = S_sources
                    /\ safe_json_parse_DevSources(NewEvent.data) # None) =>
                   \E h \in SourcesHeld : h[1] = NewEvent.data
            /\ (NewEvent.name = S_repoSources
                    /\ safe_json_parse_DevGithubSources(NewEvent.data) # None) =>
                   \E h \in GithubSourcesHeld : h[1] = NewEvent.data
            /\ (NewEvent.name = S_action
                    /\ safe_json_parse_DevAction(NewEvent.data) # None) =>
                   \E h \in ActionsHeld : h[1] = NewEvent.data
      ]_vars

\* C30 witness: the sources event of the unit test was handled after one
\* that had filled the list: the list holds the one entry of the second
\* event
C30_Witness ==
    /\ Len(ev_log) = 2
    /\ ev_log[1] = [name |-> S_sources, data |-> J_sources1]
    /\ LastEvent = [name |-> S_sources, data |-> J_sources_titled]
    /\ ev_acc.sources =
           << [title |-> Some(<<"D","o","c"," ","1">>),
               url |-> Some(<<"h","t","t","p",":","/","/","a",".","c","o","m">>),
               extra |-> << >>] >>
    /\ ev_acc.actions = << >>
    /\ ev_chunk = None

(***************************************************************************)
(* The line loop seen from the text it has consumed (SseSpec)              *)
(***************************************************************************)
\* The lines of a text that end with a newline, without their line ending
RECURSIVE TerminatedLines(_)
TerminatedLines(text) ==
    LET n == Find(text, "\n")
    IN  IF n = 0 THEN << >>
        ELSE << TrimEndMatches(SubSeq(text, 1, n - 1), "\r") >>
             \o TerminatedLines(SubSeq(text, n + 1, Len(text)))

\* The data of the events the blank lines of a list of lines dispatch, in
\* order; pending holds the data lines seen since the last blank line
RECURSIVE BlankLineEvents(_, _)
BlankLineEvents(lines, pending) ==
    IF lines = << >> THEN << >>
    ELSE LET p == parse_sse_line(Head(lines))
         IN  IF p.kind = "Data"
             THEN BlankLineEvents(Tail(lines), Append(pending, p.value))
             ELSE IF p.kind = "Empty"
             THEN (IF Len(pending) > 0 THEN << JoinLines(pending) >> ELSE << >>)
                  \o BlankLineEvents(Tail(lines), << >>)
             ELSE BlankLineEvents(Tail(lines), pending)

\* The data lines seen after the last blank line of a list of lines
RECURSIVE PendingAfter(_, _)
PendingAfter(lines, pending) ==
    IF lines = << >> THEN pending
    ELSE LET p == parse_sse_line(Head(lines))
         IN  IF p.kind = "Data"
             THEN PendingAfter(Tail(lines), Append(pending, p.value))
             ELSE IF p.kind = "Empty"
             THEN PendingAfter(Tail(lines), << >>)
             ELSE PendingAfter(Tail(lines), pending)

\* The lines the line loop has processed so far
ConsumedLines == TerminatedLines(SubSeq(received, 1, consumed))

\* C31: on a blank line the pending event is dispatched exactly when its
\* list of data lines is non-empty (a list of one empty string included),
\* with the lines joined by a newline in arrival order as its data; after
\* the blank line the list of data lines is empty, chunk or no chunk.
C31_BlankLineDispatchesPendingData ==
    ~final_chunk_sent =>
        /\ [k \in DOMAIN dispatched |-> dispatched[k].data]
               = BlankLineEvents(ConsumedLines, << >>)
        /\ current_data_buffer = PendingAfter(ConsumedLines, << >>)
        /\ ( /\ ConsumedLines # << >>
             /\ ConsumedLines[Len(ConsumedLines)] = << >> ) =>
               current_data_buffer = << >>

\* C31 witness: "data:" and a blank line were consumed: the event was
\* dispatched with empty data, produced no chunk, and no data line is left
C31_Witness ==
    /\ ~final_chunk_sent
    /\ ConsumedLines = << S_data \o <<":">>, << >> >>
    /\ Len(dispatched) = 1
    /\ dispatched[1].data = << >>
    /\ output = << >>
    /\ current_data_buffer = << >>

\* A byte chunk that is well-formed UTF-8 taken alone: every lead byte is
\* followed, and every continuation byte preceded, within the chunk
ValidAlone(bytes) ==
    \A i \in DOMAIN bytes :
        /\ IsLeadByte(bytes[i]) => (i < Len(bytes) /\ IsContByte(bytes[i + 1]))
        /\ IsContByte(bytes[i]) => (i > 1 /\ IsLeadByte(bytes[i - 1]))

\* The error chunk of a chunk that does not decode
Utf8ErrorChunk(bytes) ==
    create_error_chunk(request_id, model_name,
                       S_utf8_error \o Utf8Error_fmt(from_utf8(bytes)))

\* The error chunks of the chunks of the repertoire that do not decode
Utf8ErrorChunks ==
    {Utf8ErrorChunk(b) : b \in {c \in ByteChunks \cup EventChunks : ~from_utf8(c).ok}}

\* C32: each received byte chunk is decoded on its own: a chunk that is
\* not valid UTF-8 by itself, also one whose last character is completed by
\* the next chunk, adds one error chunk after the chunks already emitted
\* and closes the stream, and none of its bytes reaches the buffer; the
\* pull after it ends the stream.
C32_ChunkDecodedOnItsOwn ==
    [][ /\ ( /\ pc = "read"
             /\ byte_stream # << >>
             /\ Head(byte_stream).kind = "bytes"
             /\ ~ValidAlone(Head(byte_stream).bytes) ) =>
               /\ output' = Append(output, Utf8ErrorChunk(Head(byte_stream).bytes))
               /\ final_chunk_sent'
               /\ decoder_buffer' = decoder_buffer
               /\ received' = received
               /\ byte_stream' = Tail(byte_stream)
        /\ ( /\ pc = "read"
             /\ byte_stream # << >>
             /\ Head(byte_stream).kind = "bytes"
             /\ ValidAlone(Head(byte_stream).bytes) ) =>
               /\ output' = output
               /\ received' = received \o from_utf8(Head(byte_stream).bytes).text
               /\ decoder_buffer' = decoder_buffer \o from_utf8(Head(byte_stream).bytes).text
        /\ ( /\ output # << >>
             /\ output[Len(output)] \in Utf8ErrorChunks
             /\ pc = "idle" ) =>
               (pc' = "done" /\ output' = output /\ byte_stream' = byte_stream)
      ]_vars

\* C32 witness: a content chunk was emitted, then a chunk ending with the
\* first byte of a character gave the error chunk, and the stream ended
\* with the chunk holding the second byte unread
C32_Witness ==
    /\ pc = "done"
    /\ Len(output) = 2
    /\ output[1] = create_content_chunk(request_id, model_name, <<"a">>)
    /\ output[2] = Utf8ErrorChunk(B_split)
    /\ byte_stream = << [kind |-> "bytes", bytes |-> B_rest] >>
    /\ received = B_message

(***************************************************************************)
(* The same text delivered in one chunk                                    *)
(***************************************************************************)
\* The pulls on a buffer holding the whole text: each one drains lines up
\* to the next chunk; the last one finds no chunk
RECURSIVE DrainWhole(_, _)
DrainWhole(st, out) ==
    LET d == DrainLines([st EXCEPT !.event_chunk = None, !.chunk_origin = 0])
    IN  IF d.event_chunk # None
        THEN DrainWhole(d, Append(out, d.event_chunk[1]))
        ELSE [state |-> d, output |-> out]

\* The chunks and the final accumulator of a stream whose source delivers
\* text in one chunk and then ends
OneChunkRun(text) ==
    LET start == [ decoder_buffer |-> text,
                   accumulator |-> SseAccumulator_default,
                   current_event_name |-> S_message,
                   current_data_buffer |-> << >>,
                   model_name |-> model_name,
                   request_id |-> request_id,
                   event_chunk |-> None,
                   chunk_origin |-> 0,
                   consumed |-> 0,
                   data_start |-> 0,
                   dispatched |-> << >> ]
        r == DrainWhole(start, << >>)
        st == Residual(r.state)
    IN  IF ~st.accumulator.is_finished
        THEN [ output |-> Append(r.output,
                                 create_final_chunk(request_id, model_name, S_stop)),
               accumulator |-> update_related_questions(
                                   [st.accumulator EXCEPT !.is_finished = TRUE]) ]
        ELSE [ output |-> r.output, accumulator |-> st.accumulator ]

\* The source was read to its end: no chunk failed to decode and there was
\* no transport error
SourceExhausted ==
    /\ final_chunk_sent
    /\ byte_stream = << >>
    /\ silent_end \/ (output # << >> /\ IsStopChunk(output[Len(output)]))

\* C33: when every chunk is valid UTF-8 on its own, the chunks emitted and
\* the accumulator at termination depend on the text only, not on where it
\* was cut: they are those of the same text delivered in one chunk.
C33_ChunkingDoesNotMatter ==
    SourceExhausted =>
        /\ output = OneChunkRun(received).output
        /\ accumulator = OneChunkRun(received).accumulator

\* C33 witness: "data: a\r\n\n" was delivered in three chunks, the first
\* cut between the carriage return and the newline, and gave the content
\* chunk and the stop chunk
C33_Witness ==
    /\ SourceExhausted
    /\ reads = 4
    /\ received = B_cr \o B_lf \o B_lf
    /\ Len(output) = 2
    /\ output[1] = create_content_chunk(request_id, model_name, <<"a">>)
    /\ accumulator.text = <<"a">>

\* The error chunk of a transport error
TransportErrorChunk == create_error_chunk(request_id, model_name, S_read_error \o E_reqwest)

\* The last chunk yielded is the stop chunk or the error chunk of a fault
ClosingChunkYielded ==
    /\ output # << >>
    /\ \/ IsStopChunk(output[Len(output)])
       \/ output[Len(output)] \in Utf8ErrorChunks \cup {TransportErrorChunk}

\* C34: upstream is read only when the buffer holds no complete line; a
\* chunk is yielded one at a time and ends the pull, and a pull ends only
\* with a chunk or with the end of the stream, so an event that emits no
\* chunk is consumed inside the pull; after the stop chunk or the error
\* chunk of a fault the next pull ends the stream and reads nothing.
C34_ReadsOnlyWhenNoLineIsLeft ==
    [][ /\ reads' # reads =>
              (pc = "read" /\ Find(decoder_buffer, "\n") = 0)
        /\ output' # output =>
              /\ Len(output') = Len(output) + 1
              /\ SubSeq(output', 1, Len(output)) = output
              /\ pc' = "idle"
        /\ (pc # "idle" /\ pc' = "idle") => Len(output') = Len(output) + 1
        /\ (Len(dispatched') > Len(dispatched) /\ output' = output) =>
              pc' \in {"read", "done"}
        /\ (pc = "idle" /\ ClosingChunkYielded) =>
              /\ pc' = "done"
              /\ reads' = reads
              /\ byte_stream' = byte_stream
              /\ output' = output
      ]_vars

\* C34 witness: a q event, which emits no chunk, and a message event came
\* in two chunks; the first pull read both and yielded the content chunk,
\* the second read the end of the source and yielded the stop chunk, the
\* third ended the stream with no further read
C34_Witness ==
    /\ pc = "done"
    /\ reads = 3
    /\ Len(dispatched) = 2
    /\ dispatched[1].name = S_q
    /\ Len(output) = 2
    /\ output[1] = create_content_chunk(request_id, model_name, <<"a">>)
    /\ IsStopChunk(output[2])

\* The closing chunk (the stop chunk or the error chunk of a fault) has
\* been handed to the consumer, or the stream has ended without one: what
\* is left of the stream is the call that returns None
Terminated == final_chunk_sent /\ pc \in {"idle", "done"}

\* C35: with a source that ends or faults and a consumer that keeps
\* pulling, the stream reaches its end after finitely many chunks; once
\* the closing chunk is out no later call of the consumer, the one that is
\* told of the end included, emits a chunk, reads the source or changes
\* the accumulator.
C35_EventuallyTerminated ==
    /\ <>(pc = "done")
    /\ [][Terminated =>
            (/\ Terminated'
             /\ pc' = "done"
             /\ output' = output
             /\ reads' = reads
             /\ byte_stream' = byte_stream
             /\ accumulator' = accumulator)]_vars

\* C35 witness: a stream of one chunk ended after a content chunk and the
\* stop chunk, with two reads; the consumer's call after the stop chunk
\* returned None
C35_Witness ==
    /\ pc = "done"
    /\ final_chunk_sent
    /\ reads = 2
    /\ byte_stream = << >>
    /\ Len(output) = 2
    /\ IsStopChunk(output[2])
    /\ received = B_message

(***************************************************************************)
(* The text the consumer received and the text accumulated (SseSpec)       *)
(***************************************************************************)
\* The concatenation of delta.content over the content chunks of a list of
\* chunks: those with content and no finish_reason
RECURSIVE EmittedText(_)
EmittedText(out) ==
    IF out = << >> THEN << >>
    ELSE (IF /\ ~HasFinishReason(Head(out))
             /\ Head(out).choices[1].delta.content # None
          THEN Head(out).choices[1].delta.content[1]
          ELSE << >>) \o EmittedText(Tail(out))

\* The last event dispatched is a content event no chunk was yielded for:
\* the event of the residual buffer, dispatched during finalization
UnyieldedFinalContent ==
    /\ dispatched # << >>
    /\ IsContentEvent(dispatched[Len(dispatched)])
    /\ \A o \in DOMAIN origin : origin[o] # dispatched[Len(dispatched)].start

\* C36: at every point the concatenation of the content of the content
\* chunks emitted so far is a prefix of accumulator.text; when the stream
\* has ended the two are equal, unless finalization dispatched an
\* unterminated content event: then the text is the emitted content
\* followed by the data of that event, which has no chunk.
C36_EmittedContentIsPrefixOfText ==
    /\ IsPrefix(EmittedText(output), accumulator.text)
    /\ pc = "done" =>
          IF UnyieldedFinalContent
          THEN accumulator.text
                   = EmittedText(output) \o dispatched[Len(dispatched)].data
          ELSE accumulator.text = EmittedText(output)

\* C36 witness: a content event with its chunk, then "data: a" without a
\* newline at the end of the source: the text holds both, the consumer
\* received the first only
C36_Witness ==
    /\ pc = "done"
    /\ received = B_message \o B_partial
    /\ UnyieldedFinalContent
    /\ EmittedText(output) = <<"a">>
    /\ accumulator.text = <<"a","a">>
    /\ IsStopChunk(output[Len(output)])

(***************************************************************************)
(* The bridge lock under fair scheduling (SignFairSpec)                    *)
(***************************************************************************)
\* C37: the lock is not held by a caller whose sign call is over, and
\* every caller waiting for the lock eventually has its sign call return.
C37_WaitingCallerReturns ==
    /\ [](\A t \in Callers : call[t].pc \in {"idle", "panicked"} => lock # t)
    /\ \A t \in Callers : (call[t].pc = "lock") ~> Returned(t)

\* What does hold under SignFairSpec: a caller waiting for the lock has its
\* sign call return, or the mutex gets poisoned by a panic
WaitingCallerReturnsUnlessPoisoned ==
    \A t \in Callers : (call[t].pc = "lock") ~> (Returned(t) \/ poisoned)

(***************************************************************************)
(* validate_model against check_model_availability (AvailabilitySpec)      *)
(***************************************************************************)
\* C38: for every discovered list and every model name, validate_model
\* returns true exactly when check_model_availability returns Available.
C38_ValidIffAvailable ==
    \A t, u \in Tasks :
        ( /\ pv[t].pc = "idle" /\ pv[t].op = "validate"
          /\ pv[u].pc = "idle" /\ pv[u].op = "availability"
          /\ pv[t].name = pv[u].name
          /\ pv[t].ret # None /\ pv[t].ret[1].ok
          /\ pv[u].ret # None /\ pv[u].ret[1].ok ) =>
            (pv[t].ret[1].value <=> pv[u].ret[1].value.kind = "Available")

\* The list holds known model types only, and no name twice
KnownTypesOnce(models) ==
    /\ \A i \in DOMAIN models : models[i].model_type \in {"base", "freeTrial", "premium"}
    /\ \A i, j \in DOMAIN models :
           models[i].model_name = models[j].model_name => i = j

\* What does hold: the two agree when the endpoint answers a list of known
\* types that names no model twice
ValidIffAvailableOnKnownTypes ==
    (\A l \in api_lists : KnownTypesOnce(l)) => C38_ValidIffAvailable

(***************************************************************************)
(* The cached verdict of the provider's model under infer (InferSpec)      *)
(***************************************************************************)
\* The validation cache holds false for the provider's model
CachedFalse ==
    /\ effective_model_name \in DOMAIN validated_models
    /\ ~validated_models[effective_model_name]

\* C39: with no clear_model_cache call from outside, a false verdict in the
\* cache stays there, and an infer call that looks the verdict up while it
\* is cached goes on to the 400 error without a request.
C39_CachedFalseStays ==
    [][ CachedFalse =>
            /\ CachedFalse'
            /\ \A t \in Tasks :
                   (pv[t].op = "infer" /\ pv[t].pc = "v_check"
                        /\ pv'[t].pc # "v_check") =>
                       /\ pv'[t].pc = "i_send"
                       /\ pv'[t].valid = Some(FALSE)
                       /\ pv'[t].sent = 0
      ]_vars

\* What does hold: when one task makes all the calls, one after the other,
\* a cached false verdict stays and every later infer call meets it
CachedFalseStaysForOneTask ==
    [][ (CachedFalse /\ \A u \in Tasks \ {1} : pv[u] = IdleTask) =>
            /\ CachedFalse'
            /\ (pv[1].op = "infer" /\ pv[1].pc = "v_check"
                    /\ pv'[1].pc # "v_check") =>
                   /\ pv'[1].pc = "i_send"
                   /\ pv'[1].valid = Some(FALSE)
      ]_vars

(***************************************************************************)
(* The provider's locks under fair scheduling (ProviderFairSpec)           *)
(***************************************************************************)
\* C40: a guard is held across a wait for another lock only inside
\* clear_model_cache, which holds the write guard of available_models
\* while it takes the one of validated_models; and every call of
\* discover_models, validate_model, clear_model_cache or infer under way
\* eventually returns.
C40_EveryCallReturns ==
    /\ [](am_writer # 0 =>
            (pv[am_writer].pc = "c_validated"
             /\ pv[am_writer].op \in {"clear", "infer"}))
    /\ \A t \in Tasks : (pv[t].pc # "idle") ~> (pv[t].pc = "idle")

\* What does hold under ProviderFairSpec: the locks of the provider stop
\* no call, and every call under way returns unless the signer panics
\* under infer
EveryCallReturnsUnlessSignerPanics ==
    /\ [](am_writer # 0 =>
            (pv[am_writer].pc = "c_validated"
             /\ pv[am_writer].op \in {"clear", "infer"}))
    /\ \A t \in Tasks : (pv[t].pc # "idle") ~> (pv[t].pc = "idle" \/ poisoned)
====
